---- MODULE Spec2Model ----
(***************************************************************************)
(* A model of hugot's handler engine: the ResponseWriter, the CommandSet   *)
(* with its exact/prefix command resolution, the per-invocation wrapper    *)
(* runCommandHandler and the dispatch loop Loop with its forwarding tasks. *)
(*                                                                         *)
(* Go strings are sequences of one-character strings, so that prefixes and *)
(* the byte order of names are computed and not assumed.  An optional      *)
(* value (a nil slice, a nil pointer) is the empty sequence, a set one is  *)
(* the one-element sequence holding it.                                    *)
(***************************************************************************)
EXTENDS Integers, Sequences, FiniteSets, TLC

(* ------------------------------ bounds -------------------------------- *)

\* the longest argument vector handed to a command dispatch
MaxArgs == 2
\* how many messages the adapters deliver in a run of the loop
MaxMsgs == 2
\* how many messages they deliver in a run of the loop with a handler of
\* OrderHandlers
MaxOrdered == 3
\* how many calls the owner of a ResponseWriter makes on it and its copies
MaxCalls == 4
\* how many ResponseWriters there are, copies included
MaxWriters == 2
\* the posts read from the event source
MaxPosts == 3

(* --------------------------- strings ---------------------------------- *)

None == <<>>
Some(x) == <<x>>

sHelp == <<"h", "e", "l", "p">>
sDelete == <<"d", "e", "l", "e", "t", "e">>
sDeleted == <<"d", "e", "l", "e", "t", "e", "d">>
sDeploy == <<"d", "e", "p", "l", "o", "y">>
sDel == <<"d", "e", "l">>
sDe == <<"d", "e">>
sX == <<"x">>
sEmpty == <<>>

\* the names a handler can be registered under
NameUniverse == {sHelp, sDelete, sDeleted, sDeploy}

\* the first arguments tried against a CommandSet
Tokens == {sHelp, sDelete, sDeleted, sDeploy, sDel, sDe, sX, sEmpty}

\* the byte value of the characters used
Code(c) ==
    CASE c = " " -> 32
      [] c = "\"" -> 34
      [] c = "d" -> 100
      [] c = "e" -> 101
      [] c = "h" -> 104
      [] c = "l" -> 108
      [] c = "o" -> 111
      [] c = "p" -> 112
      [] c = "t" -> 116
      [] c = "x" -> 120
      [] c = "y" -> 121

\* HasPrefix without the length test
HasPrefixNoLen(s, prefix) ==
    \A i \in 1..Len(prefix) : i <= Len(s) => s[i] = prefix[i]
\* HasPrefix comparing the first byte only
HasPrefixFirstByte(s, prefix) ==
    prefix # <<>> /\ s # <<>> /\ s[1] = prefix[1]
\* strings.HasPrefix(s, prefix)
HasPrefix(s, prefix) ==
    /\ Len(s) >= Len(prefix)
    /\ SubSeq(s, 1, Len(prefix)) = prefix

RECURSIVE StrLess(_, _)
\* the Go comparison a < b of two strings: byte-wise, a proper prefix is less
StrLess(a, b) ==
    IF b = <<>> THEN FALSE
    ELSE IF a = <<>> THEN TRUE
    ELSE IF Head(a) = Head(b) THEN StrLess(Tail(a), Tail(b))
    ELSE Code(Head(a)) < Code(Head(b))

(* --------------------------- messages --------------------------------- *)

\* Message: the fields the engine reads or writes.  args is the lazily
\* parsed argument vector (None while nil), FlagSet the flag set the wrapper
\* attaches (None while nil), with its name and its output buffer flagOut.
NewMessage(channel, from, text) ==
    [Channel |-> channel, From |-> from, To |-> "", Text |-> text,
     args |-> None, FlagSet |-> None]

\* Message{}: the zero value
ZeroMessage == NewMessage("", "", <<>>)

RECURSIVE ParseFrom(_, _, _, _)
\* the scan of shellwords.Parse over the characters modelled: blanks split
\* the tokens outside double quotes, a double quote toggles quoting, an empty
\* buffer never becomes a token, an open quote at the end is an error
ParseFrom(line, args, buf, doubleQuoted) ==
    IF line = <<>>
    THEN IF doubleQuoted
         THEN [ok |-> FALSE, args |-> <<>>]
         ELSE [ok |-> TRUE,
               args |-> IF buf # <<>> THEN Append(args, buf) ELSE args]
    ELSE LET r == Head(line)
             rest == Tail(line)
         IN  IF r = " "
             THEN IF doubleQuoted
                  THEN ParseFrom(rest, args, Append(buf, r), doubleQuoted)
                  ELSE IF buf # <<>>
                       THEN ParseFrom(rest, Append(args, buf), <<>>, doubleQuoted)
                       ELSE ParseFrom(rest, args, buf, doubleQuoted)
             ELSE IF r = "\""
                  THEN ParseFrom(rest, args, buf, ~doubleQuoted)
                  ELSE ParseFrom(rest, args, Append(buf, r), doubleQuoted)

\* shellwords.Parse(m.Text): the argument vector (empty, not nil, for a blank
\* text) or a failure
Parse(text) == ParseFrom(text, <<>>, <<>>, FALSE)

\* Message.Parse as the command handlers use it: the flag set consumes the
\* command name, the rest stays as the argument vector
MsgParse(m) == [m EXCEPT !.args = Some(Tail(m.args[1]))]

(* ---------------------------- errors ---------------------------------- *)

Err(kind, tok, names) == [kind |-> kind, tok |-> tok, names |-> names]
NoError == Err("nil", <<>>, <<>>)
ErrSkipHears == Err("ErrSkipHears", <<>>, <<>>)
ErrUnknownCommand == Err("ErrUnknownCommand", <<>>, <<>>)
ErrBadCLI == Err("ErrBadCLI", <<>>, <<>>)
ErrHelp == Err("flag.ErrHelp", <<>>, <<>>)
\* errNextCommand{ctx}: the error carries the context for the sub-command
ErrNextCommand(ctx) ==
    [kind |-> "errNextCommand", tok |-> <<>>, names |-> <<>>, ctx |-> ctx]
\* errors.New("command handler called with no possible arguments")
ErrNoArguments == Err("no possible arguments", <<>>, <<>>)
\* the error a handler's own function returns
ErrHandler(name) == Err("handler error", name, <<>>)
ErrMissingSubCommand(names) == Err("required sub-command missing", <<>>, names)
ErrMultipleExact(tok) == Err("multiple exact matches", tok, <<>>)
ErrAmbiguous(tok, names) == Err("ambigious command", tok, names)

(* ------------------------- ResponseWriter ----------------------------- *)

\* newResponseWriter(s, m, an)
newResponseWriter(s, m, an) == [snd |-> s, msg |-> m, an |-> an]

\* responseWriter.Send: what reaches which sender
Send(w, m) == [to |-> w.snd, msg |-> m]

\* a Write that sends the template as it is
WriteTemplate(w, bs) == Send(w, w.msg)
\* responseWriter.Write: one message, the template with Text replaced
Write(w, bs) == Send(w, [w.msg EXCEPT !.Text = bs])

SetChannel(w, c) == [w EXCEPT !.msg.Channel = c]
SetTo(w, to) == [w EXCEPT !.msg.To = to]
SetSender(w, s) == [w EXCEPT !.snd = s]

\* a Copy that takes the template along
CopyWithTemplate(w) == [snd |-> w.snd, msg |-> w.msg, an |-> w.an]
\* responseWriter.Copy
Copy(w) == [snd |-> w.snd, msg |-> ZeroMessage, an |-> w.an]

(* ----------------------- handlers and CommandSet ---------------------- *)

\* what a command handler's own function does when it is called:
\*   "ok"    writes one reply and returns nil
\*   "fail"  returns an error of its own
\*   "help"  its flag parsing met -help: returns flag.ErrHelp
\*   "panic" panics
\*   "next"  defaultCommandHandler: m.Parse(), then ErrNextCommand(ctx)
\*   "derive" defines a flag on m.FlagSet and prints the defaults to the
\*            flag set's output, m.Parse(), then ErrNextCommand(c) with c
\*            derived from ctx
LeafBehaviours == {"ok", "fail", "help", "panic"}

\* the description a handler is registered with
Desc(name) == <<"#">> \o name

\* the empty CommandSet of NewCommandSet
NewCommandSet == [n \in {} |-> n]

\* NewCommandHandler(name, desc, f, cs)
NewCommandHandler(name, beh, cs) ==
    [name |-> name, desc |-> Desc(name), beh |-> beh, subs |-> cs]

\* Describe() of a handler
Describe(h) == <<h.name, h.desc>>

\* (*cs)[n] = c with n the handler's own name
AddCommandHandler(cs, c) ==
    [n \in DOMAIN cs \cup {Describe(c)[1]} |->
        IF n = Describe(c)[1] THEN c ELSE cs[n]]

\* the keys of cs in the order one range loop over the map visits them;
\* ord is the order this loop happens to draw over all names
Range(ord, cs) == SelectSeq(ord, LAMBDA n : n \in DOMAIN cs)

(* ------------------------------- List --------------------------------- *)

\* a Less that orders the names downwards
LessDownwards(b, i, j) == StrLess(b.ns[j], b.ns[i])
\* byAlpha.Less
Less(b, i, j) == StrLess(b.ns[i], b.ns[j])

\* byAlpha.Swap: the three assignments in turn (the second one reads ns
\* after the first has exchanged it)
Swap(b, i, j) ==
    LET ns1 == [b.ns EXCEPT ![i] = b.ns[j], ![j] = b.ns[i]]
        ds1 == [b.ds EXCEPT ![i] = ns1[j], ![j] = b.ds[i]]
        chs1 == [b.chs EXCEPT ![i] = b.chs[j], ![j] = b.chs[i]]
    IN  [ns |-> ns1, ds |-> ds1, chs |-> chs1]

RECURSIVE InsertionInner(_, _)
\* the inner loop of sort's insertionSort: for j := i; j > a && Less(j, j-1); j--
InsertionInner(b, j) ==
    IF j > 1 /\ Less(b, j, j - 1)
    THEN InsertionInner(Swap(b, j, j - 1), j - 1)
    ELSE b

RECURSIVE InsertionSort(_, _)
\* sort.Sort on at most 12 elements is insertionSort
InsertionSort(b, i) ==
    IF i > Len(b.ns) THEN b ELSE InsertionSort(InsertionInner(b, i), i + 1)

\* a List that returns the entries in the order the map gave them
ListInMapOrder(ord, cs) ==
    [ns |-> [i \in 1..Len(Range(ord, cs)) |-> Describe(cs[Range(ord, cs)[i]])[1]],
     ds |-> [i \in 1..Len(Range(ord, cs)) |-> Describe(cs[Range(ord, cs)[i]])[2]],
     chs |-> [i \in 1..Len(Range(ord, cs)) |-> cs[Range(ord, cs)[i]]]]
\* CommandSet.List
List(ord, cs) ==
    LET keys == SelectSeq(Range(ord, cs), LAMBDA n : Describe(cs[n])[1] # sHelp)
        hasHelp == \E n \in DOMAIN cs : Describe(cs[n])[1] = sHelp
        cmds == [i \in 1..Len(keys) |-> Describe(cs[keys[i]])[1]]
        descs == [i \in 1..Len(keys) |-> Describe(cs[keys[i]])[2]]
        chs == [i \in 1..Len(keys) |-> cs[keys[i]]]
        sorted == InsertionSort([ns |-> cmds, ds |-> descs, chs |-> chs], 2)
    IN  IF hasHelp
        THEN [ns |-> <<sHelp>> \o sorted.ns,
              ds |-> <<Describe(cs[sHelp])[2]>> \o sorted.ds,
              chs |-> <<cs[sHelp]>> \o sorted.chs]
        ELSE sorted

(* ------------------- command resolution and wrapper ------------------- *)

\* The outcome of a call on the command path:
\*   err    the error returned (NoError for nil)
\*   panic  TRUE when the call did not return but panicked
\*   inv    the handlers whose function was called, in call order, each with
\*          the message it was called with
\*   out    what was sent through the response writer, in order
\*   m      the message as the call leaves it
Outcome(err, panic, inv, out, m) ==
    [err |-> err, panic |-> panic, inv |-> inv, out |-> out, m |-> m]

\* the usage text cmdUsage(h, name, nil) renders for handler h
cmdUsage(h, name) == <<"u", "s", "a", "g", "e", " ">> \o name

\* the names of cs that have tok as a prefix, in iteration order (matchesns)
Matches(ord, cs, tok) ==
    SelectSeq(Range(ord, cs), LAMBDA name : HasPrefix(name, tok))

\* the names of cs equal to tok (ematches)
EMatches(ord, cs, tok) ==
    SelectSeq(Range(ord, cs), LAMBDA name : name = tok)

\* Resolve with the prefix tests ahead of the exact ones
ResolvePrefixFirst(matches, ematches) ==
    IF Len(matches) = 0 /\ Len(ematches) = 0 THEN "unknown"
    ELSE IF Len(matches) = 1 THEN "prefix"
    ELSE IF Len(matches) > 1 THEN "ambiguous"
    ELSE IF Len(ematches) > 1 THEN "multiple exact"
    ELSE "exact"
\* Resolve as the older revision did it: exact names only
ResolveExactOnly(matches, ematches) ==
    IF Len(ematches) = 0 THEN "unknown"
    ELSE IF Len(ematches) > 1 THEN "multiple exact"
    ELSE "exact"
\* Resolve with the first prefix match taken when there are several
ResolveFirstMatch(matches, ematches) ==
    IF Len(matches) = 0 /\ Len(ematches) = 0 THEN "unknown"
    ELSE IF Len(ematches) > 1 THEN "multiple exact"
    ELSE IF Len(ematches) = 1 THEN "exact"
    ELSE "prefix"
\* the chain of tests of NextCommand on the two candidate lists
Resolve(matches, ematches) ==
    IF Len(matches) = 0 /\ Len(ematches) = 0 THEN "unknown"
    ELSE IF Len(ematches) > 1 THEN "multiple exact"
    ELSE IF Len(ematches) = 1 THEN "exact"
    ELSE IF Len(matches) = 1 THEN "prefix"
    ELSE "ambiguous"

\* the context Loop and the callers of NextCommand work under, and a
\* context a handler derives from the one it is given
Background == <<"ctx">>
Derive(ctx) == Append(ctx, "derived")

\* a hand-over that goes on under the context the handler was called with
CallersCtx(ctx, errnc) == ctx
\* errnc.ctx: the context the sub-command dispatch is given
NextCtx(ctx, errnc) == errnc.ctx

\* m.FlagSet.Bool("v", ...) and m.FlagSet.PrintDefaults() in a handler's
\* function: the flag set of the message holds the flag, its output buffer
\* the line printed for it
DefineFlag(m) ==
    [m EXCEPT !.FlagSet = Some([m.FlagSet[1] EXCEPT
                                   !.flags = @ \cup {"v"},
                                   !.flagOut = @ \o <<"-v">>])]

\* an invocation of a handler's function: the handler, the message and the
\* context it was called with
Inv(ctx, h, m) == [h |-> h, m |-> m, ctx |-> ctx]

\* handlers whose deferring functions hand the message on as they got it,
\* with the argument vector not advanced
bcfKeepsVector(ctx, h, w, m) ==
    CASE h.beh = "ok" ->
            Outcome(NoError, FALSE, <<Inv(ctx, h, m)>>,
                    <<Write(w, h.name)>>, m)
      [] h.beh = "fail" ->
            Outcome(ErrHandler(h.name), FALSE, <<Inv(ctx, h, m)>>, <<>>, m)
      [] h.beh = "help" ->
            Outcome(ErrHelp, FALSE, <<Inv(ctx, h, m)>>, <<>>, m)
      [] h.beh = "panic" ->
            Outcome(NoError, TRUE, <<Inv(ctx, h, m)>>, <<>>, m)
      [] h.beh = "next" ->
            Outcome(ErrNextCommand(ctx), FALSE, <<Inv(ctx, h, m)>>, <<>>, m)
      [] h.beh = "derive" ->
            Outcome(ErrNextCommand(Derive(ctx)), FALSE, <<Inv(ctx, h, m)>>,
                    <<>>, DefineFlag(m))
\* the call bch.bcf(ctx, w, m) of a handler's own function
bcf(ctx, h, w, m) ==
    CASE h.beh = "ok" ->
            Outcome(NoError, FALSE, <<Inv(ctx, h, m)>>,
                    <<Write(w, h.name)>>, m)
      [] h.beh = "fail" ->
            Outcome(ErrHandler(h.name), FALSE, <<Inv(ctx, h, m)>>, <<>>, m)
      [] h.beh = "help" ->
            Outcome(ErrHelp, FALSE, <<Inv(ctx, h, m)>>, <<>>, m)
      [] h.beh = "panic" ->
            Outcome(NoError, TRUE, <<Inv(ctx, h, m)>>, <<>>, m)
      [] h.beh = "next" ->
            Outcome(ErrNextCommand(ctx), FALSE, <<Inv(ctx, h, m)>>, <<>>,
                    MsgParse(m))
      [] h.beh = "derive" ->
            Outcome(ErrNextCommand(Derive(ctx)), FALSE, <<Inv(ctx, h, m)>>,
                    <<>>, MsgParse(DefineFlag(m)))

\* flag.NewFlagSet(name, flag.ContinueOnError) with its output set to a new
\* bytes.Buffer: no flag defined, nothing written
NewFlagSet(name) == [name |-> name, flags |-> {}, flagOut |-> <<>>]

\* a parse step that tokenizes the text whether or not the vector is set
EagerParse(m) == Parse(m.Text)
\* if m.args == nil { m.args, err = shellwords.Parse(m.Text) }: the text is
\* tokenized only while the vector is nil
LazyParse(m) ==
    IF m.args = None THEN Parse(m.Text) ELSE [ok |-> TRUE, args |-> m.args[1]]

RECURSIVE NextCommand(_, _, _, _, _)
RECURSIVE runCommandHandler(_, _, _, _, _)
RECURSIVE Command(_, _, _, _, _)

\* CommandSet.NextCommand
NextCommand(ord, ctx, cs, w, m) ==
    LET parsed == LazyParse(m)
        m1 == [m EXCEPT !.args = Some(parsed.args)]
        tok == parsed.args[1]
        matchesns == Matches(ord, cs, tok)
        ematches == EMatches(ord, cs, tok)
        how == Resolve(matchesns, ematches)
    IN  IF ~parsed.ok THEN Outcome(ErrBadCLI, FALSE, <<>>, <<>>, m)
        ELSE IF Len(parsed.args) = 0
        THEN Outcome(ErrMissingSubCommand(List(ord, cs).ns), FALSE, <<>>, <<>>, m1)
        ELSE CASE how = "unknown" ->
                    Outcome(ErrUnknownCommand, FALSE, <<>>, <<>>, m1)
               [] how = "multiple exact" ->
                    Outcome(ErrMultipleExact(tok), FALSE, <<>>, <<>>, m1)
               [] how = "exact" ->
                    runCommandHandler(ord, ctx, cs[ematches[1]], w, m1)
               [] how = "prefix" ->
                    runCommandHandler(ord, ctx, cs[matchesns[1]], w, m1)
               [] how = "ambiguous" ->
                    Outcome(ErrAmbiguous(tok, matchesns), FALSE, <<>>, <<>>, m1)

\* baseCommandHandler.Command
Command(ord, ctx, h, w, m) ==
    LET r == bcf(ctx, h, w, m)
    IN  IF r.panic \/ r.err.kind # "errNextCommand"
        THEN r
        ELSE LET n == NextCommand(ord, NextCtx(ctx, r.err), h.subs, w, r.m)
             IN  Outcome(n.err, n.panic, r.inv \o n.inv, r.out \o n.out, n.m)

\* a wrapper that recovers a panic and hands every error on as it is
runCommandHandlerPassesHelp(ord, ctx, h, w, m) ==
    LET parsed == LazyParse(m)
        m1 == [m EXCEPT !.args = Some(parsed.args)]
        m2 == [m1 EXCEPT !.FlagSet = Some(NewFlagSet(parsed.args[1]))]
        r == Command(ord, ctx, h, w, m2)
    IN  IF ~parsed.ok THEN Outcome(ErrBadCLI, FALSE, <<>>, <<>>, m)
        ELSE IF Len(parsed.args) = 0
        THEN Outcome(ErrNoArguments, FALSE, <<>>, <<>>, m1)
        ELSE IF r.panic
        THEN Outcome(NoError, FALSE, r.inv, r.out, r.m)
        ELSE r

\* a wrapper that defers no glogPanic: the panic of a handler goes on to the
\* wrapper's caller
runCommandHandlerNoRecover(ord, ctx, h, w, m) ==
    LET parsed == LazyParse(m)
        m1 == [m EXCEPT !.args = Some(parsed.args)]
        m2 == [m1 EXCEPT !.FlagSet = Some(NewFlagSet(parsed.args[1]))]
        r == Command(ord, ctx, h, w, m2)
    IN  IF ~parsed.ok THEN Outcome(ErrBadCLI, FALSE, <<>>, <<>>, m)
        ELSE IF Len(parsed.args) = 0
        THEN Outcome(ErrNoArguments, FALSE, <<>>, <<>>, m1)
        ELSE IF ~r.panic /\ r.err = ErrHelp
        THEN Outcome(ErrSkipHears, FALSE, r.inv,
                     r.out \o <<Write(w, cmdUsage(h, parsed.args[1]))>>, r.m)
        ELSE r
\* a wrapper that attaches a flag set only to a message that has none: a
\* sub-command is handed the flag set and the buffer of its parent
runCommandHandlerKeepsFlagSet(ord, ctx, h, w, m) ==
    LET parsed == LazyParse(m)
        m1 == [m EXCEPT !.args = Some(parsed.args)]
        name == parsed.args[1]
        m2 == IF m1.FlagSet = None
              THEN [m1 EXCEPT !.FlagSet = Some(NewFlagSet(name))]
              ELSE m1
        r == Command(ord, ctx, h, w, m2)
    IN  IF ~parsed.ok THEN Outcome(ErrBadCLI, FALSE, <<>>, <<>>, m)
        ELSE IF Len(parsed.args) = 0
        THEN Outcome(ErrNoArguments, FALSE, <<>>, <<>>, m1)
        ELSE IF r.panic
        THEN Outcome(NoError, FALSE, r.inv, r.out, r.m)
        ELSE IF r.err = ErrHelp
        THEN Outcome(ErrSkipHears, FALSE, r.inv,
                     r.out \o <<Write(w, cmdUsage(h, name))>>, r.m)
        ELSE r
\* runCommandHandler, with its deferred glogPanic: a panic of the handler is
\* recovered and the wrapper returns the zero error
runCommandHandler(ord, ctx, h, w, m) ==
    LET parsed == LazyParse(m)
        m1 == [m EXCEPT !.args = Some(parsed.args)]
        name == parsed.args[1]
        m2 == [m1 EXCEPT !.FlagSet = Some(NewFlagSet(name))]
        r == Command(ord, ctx, h, w, m2)
    IN  IF ~parsed.ok THEN Outcome(ErrBadCLI, FALSE, <<>>, <<>>, m)
        ELSE IF Len(parsed.args) = 0
        THEN Outcome(ErrNoArguments, FALSE, <<>>, <<>>, m1)
        ELSE IF r.panic
        THEN Outcome(NoError, FALSE, r.inv, r.out, r.m)
        ELSE IF r.err = ErrHelp
        THEN Outcome(ErrSkipHears, FALSE, r.inv,
                     r.out \o <<Write(w, cmdUsage(h, name))>>, r.m)
        ELSE r

(* ---------------------- the inputs of a dispatch ---------------------- *)

\* the arguments that follow the first one
RestTokens == {sDelete, sDe, sDeleted}

RECURSIVE ArgVecs(_)
\* the argument vectors of at most n arguments
ArgVecs(n) ==
    IF n = 0 THEN {<<>>}
    ELSE IF n = 1 THEN {<<>>} \cup {<<t>> : t \in Tokens}
    ELSE ArgVecs(n - 1) \cup
         {Append(v, t) : v \in {u \in ArgVecs(n - 1) : Len(u) = n - 1},
                         t \in RestTokens}

\* message texts: empty, blank, one word, two words, an open quote, a quoted
\* word, a quoted second word
Texts ==
    {<<>>, <<" ">>, sDel, sDelete \o <<" ">> \o sDe,
     <<"\"">> \o sDel, <<"\"">> \o sDe \o <<"\"">>,
     sDeploy \o <<" ", "\"">> \o sDelete \o <<"\"">>}

\* the messages handed to NextCommand: fresh ones, whose Text is still to
\* be tokenized, and ones whose argument vector is already set
InputMessages ==
    {NewMessage("c1", "u1", t) : t \in Texts} \cup
    {[NewMessage("c1", "u1", <<>>) EXCEPT !.args = Some(v)] : v \in ArgVecs(MaxArgs)}

\* the orders a range loop over a map can take
Orders ==
    {o \in [1..Cardinality(NameUniverse) -> NameUniverse] :
        \A i, j \in DOMAIN o : i # j => o[i] # o[j]}

Leaf(n, b) == NewCommandHandler(n, b, NewCommandSet)

\* sub-command sets: a flat one, and one whose "deploy" defers once more,
\* under a context of its own
SubsFlat ==
    AddCommandHandler(AddCommandHandler(NewCommandSet, Leaf(sDelete, "ok")),
                      Leaf(sDeleted, "help"))
SubsDeep ==
    AddCommandHandler(
        AddCommandHandler(
            AddCommandHandler(NewCommandSet, Leaf(sHelp, "ok")),
            NewCommandHandler(sDeploy, "derive", SubsFlat)),
        Leaf(sDelete, "panic"))

\* the handlers an application registers: every name with several
\* behaviours, every behaviour under some name
Handlers ==
    {Leaf(sHelp, "help")} \cup
    {Leaf(sDelete, b) : b \in {"ok", "fail", "panic"}} \cup
    {Leaf(sDeleted, b) : b \in {"ok", "help"}} \cup
    {Leaf(sDeploy, "fail")} \cup
    {NewCommandHandler(sDelete, "next", SubsDeep),
     NewCommandHandler(sDeploy, "next", SubsFlat),
     NewCommandHandler(sDeploy, "derive", SubsFlat),
     NewCommandHandler(sDeploy, "next", NewCommandSet)}

(* --------------------------- the loop's inputs ------------------------ *)

\* Loop(ctx, h, a, as...): the primary adapter a and one additional adapter
Primary == "a1"
Adapters == {"a1", "a2"}

\* fmt.Sprintf("%T", a): the two adapters are of different types
TypeName(a) == IF a = "a1" THEN "*shell.shell" ELSE "*ssh.ssh"

\* the channel an adapter's messages come from
ChannelOf(a) == IF a = "a1" THEN "c1" ELSE "c2"

\* the texts of the messages of an adapter: on the primary one a command
\* word that starts with the patterns' literal; on the other a word that
\* holds the literal, though not at its start, and leaves a quote open
sXDelQuote == sX \o sDel \o <<"\"">>
TextsOf(a) == IF a = "a1" THEN {sDelete} ELSE {sXDelQuote}

\* a Hears pattern: a literal, anchored at the start, at the end, or not
\* FindAllStringSubmatch(text, -1) != nil: the pattern occurs in the text
HearsMatches(pat, text) ==
    \E i \in 1..(Len(text) + 1) :
        /\ i + Len(pat.lit) - 1 <= Len(text)
        /\ SubSeq(text, i, i + Len(pat.lit) - 1) = pat.lit
        /\ pat.start => i = 1
        /\ pat.end => i + Len(pat.lit) - 1 = Len(text)

\* what the function of a Raw, Heard or Background handler does with its
\* writer, one call after the other:
\*   "ok"        writes one reply
\*   "panic"     panics
\*   "redirect"  SetChannel, then writes one reply
\*   "private"   SetTo, then writes one reply
\*   "reroute"   SetSender to the primary adapter, then writes one reply
Program(beh) ==
    CASE beh = "ok" -> <<"Write">>
      [] beh = "panic" -> <<"panic">>
      [] beh = "redirect" -> <<"SetChannel", "Write">>
      [] beh = "private" -> <<"SetTo", "Write">>
      [] beh = "reroute" -> <<"SetSender", "Write">>

\* the handler h given to Loop: the capabilities it has (None: it lacks the
\* capability) and what each does.  One handler value may have several.
NewHandler(raw, pat, heard, cmd, bg) ==
    [raw |-> raw, hears |-> pat, heard |-> heard, cmd |-> cmd, bg |-> bg]

PatDel == [lit |-> sDel, start |-> TRUE, end |-> FALSE]
PatAnyDel == [lit |-> sDel, start |-> FALSE, end |-> FALSE]

\* the handlers the loop is run with: one whose Raw function and Heard
\* callback panic and whose command defers to its sub-commands; one with a
\* Background function whose Heard callback panics; one whose Raw function
\* sets the sender and that hears every message; and one that hears the
\* messages of the primary adapter and whose command asks for its usage
LoopHandlers ==
    {NewHandler(Some("panic"), Some(PatDel), "panic",
                Some(NewCommandHandler(sDelete, "next", SubsFlat)), None),
     NewHandler(None, Some(PatDel), "panic", None, Some("ok")),
     NewHandler(Some("reroute"), Some(PatAnyDel), "ok", None, None),
     NewHandler(None, Some(PatDel), "ok", Some(Leaf(sDelete, "help")), None)}

(* ------------------------------ state --------------------------------- *)

VARIABLES
    cs,       \* the CommandSet under construction, then dispatched on
    last,     \* None, or the last NextCommand call: its input and its outcome
    h,        \* the handler Loop runs with
    mainPc,   \* Loop: "start", "range", "select", "count", "go" or "returned"
    ctxDone,  \* the governing context is cancelled
    crashed,  \* an unrecovered panic has terminated the process
    heap,     \* the Messages the adapters have made; a *Message is an index
    origin,   \* origin[p]: the adapter that delivered message p
    fwd,      \* per adapter: its forwarding task, and what it offers on mrws
    wr,       \* the responseWriters made; a ResponseWriter is an index
    taken,    \* the smrw values the main loop has received, in order
    started,  \* the invocations the main loop has started, in order
    tasks,    \* the running invocations
    finished, \* the invocations that have returned
    panics,   \* the invocations whose handler has panicked
    sent,     \* what the senders were given to send: by whom, to whom, what
    messagesRx, \* the messages-received counter: label values to count
    calls,    \* the calls made on the writers of wr by their one owner
    mma,      \* the Mattermost adapter: its reader goroutines and channels
    recvCh    \* the channel its forwarding task waits on (0: none yet)

cmdVars == <<cs, last>>
loopVars == <<h, mainPc, ctxDone, crashed, heap, origin, fwd, wr,
              taken, started, tasks, finished, panics, sent, messagesRx>>
vars == <<cs, last, h, mainPc, ctxDone, crashed, heap, origin, fwd, wr,
          taken, started, tasks, finished, panics, sent, messagesRx, calls,
          mma, recvCh>>
mmVars == <<mma, recvCh>>

\* the adapter before Receive is called: no reader goroutine, no event read
MMIdle ==
    /\ mma = [readers |-> <<>>, read |-> 0]
    /\ recvCh = 0

\* the loop before Loop is called
LoopIdle ==
    /\ mainPc = "start"
    /\ ctxDone = FALSE
    /\ crashed = FALSE
    /\ heap = <<>>
    /\ origin = <<>>
    /\ fwd = [a \in Adapters |-> [pc |-> "unstarted", held |-> <<>>]]
    /\ wr = <<>>
    /\ taken = <<>>
    /\ started = <<>>
    /\ tasks = {}
    /\ finished = {}
    /\ panics = {}
    /\ sent = {}
    /\ messagesRx = <<>>

(* ----------------------- the command-set machine ---------------------- *)

\* cs.AddCommandHandler(c), before any dispatch
Register(c) ==
    /\ last = None
    /\ cs' = AddCommandHandler(cs, c)
    /\ UNCHANGED last
    /\ UNCHANGED <<loopVars, mmVars, calls>>

\* cs.NextCommand(ctx, w, m) with a writer made for m as Loop makes it
Dispatch(m, ord) ==
    LET w == newResponseWriter(Primary, m, TypeName(Primary))
    IN  /\ last = None
        /\ last' = Some([m |-> m, w |-> w, ord |-> ord,
                         r |-> NextCommand(ord, Background, cs, w, m)])
        /\ UNCHANGED cs
        /\ UNCHANGED <<loopVars, mmVars, calls>>

InitCmd ==
    /\ cs = NewCommandSet
    /\ last = None
    /\ h = NewHandler(None, None, "ok", None, None)
    /\ LoopIdle
    /\ calls = <<>>
    /\ MMIdle

NextCmd ==
    \/ \E c \in Handlers : Register(c)
    \/ \E m \in InputMessages, ord \in Orders : Dispatch(m, ord)

SpecCmd == InitCmd /\ [][NextCmd]_vars

(* ------------------- command resolution: the claims ------------------- *)

\* p is a prefix of s, stated without the code's HasPrefix
IsPrefixOf(p, s) == \E k \in 0..Len(s) : SubSeq(s, 1, k) = p

Called == last # None
In == last[1].m
W == last[1].w
Ord == last[1].ord
R == last[1].r

\* the argument vector the call works on, when there is one
Tokenizes == In.args # None \/ Parse(In.Text).ok
CallArgs == IF In.args # None THEN In.args[1] ELSE Parse(In.Text).args
HasFirst == Called /\ Tokenizes /\ Len(CallArgs) > 0
First == CallArgs[1]
InParsed == [In EXCEPT !.args = Some(CallArgs)]

\* the registered names that have the first argument as a prefix
PrefixNames == {n \in DOMAIN cs : IsPrefixOf(First, n)}
SeqToSet(q) == {q[i] : i \in DOMAIN q}

\* C1: when the first argument equals a registered name, the call is the
\* wrapper's call on the handler registered under that name and nothing
\* else, whatever other names have the argument as a prefix; in particular a
\* handler is invoked, so no ambiguity of this set is reported.
C1_ExactMatchWins ==
    (HasFirst /\ First \in DOMAIN cs) =>
        /\ R = runCommandHandler(Ord, Background, cs[First], W, InParsed)
        /\ R.inv # <<>>
        /\ R.inv[1].h = cs[First]
        /\ R.inv[1].m.FlagSet = Some(NewFlagSet(First))

C1_Witness ==
    /\ HasFirst
    /\ First = sDelete
    /\ {sDelete, sDeleted} \subseteq DOMAIN cs
    /\ R.inv # <<>>
    /\ R.inv[1].h.name = sDelete

\* C2: when the first argument equals no registered name and is a prefix of
\* exactly one, the call is the wrapper's call on that one handler: that
\* handler is invoked and the wrapper's outcome for it is returned.
C2_UniquePrefixDispatches ==
    (HasFirst /\ First \notin DOMAIN cs /\ Cardinality(PrefixNames) = 1) =>
        \A n \in PrefixNames :
            /\ R = runCommandHandler(Ord, Background, cs[n], W, InParsed)
            /\ R.inv # <<>>
            /\ R.inv[1].h = cs[n]

C2_Witness ==
    /\ HasFirst
    /\ First = sDel
    /\ {sDelete, sDeploy} \subseteq DOMAIN cs
    /\ sDeleted \notin DOMAIN cs
    /\ R.inv # <<>>
    /\ R.inv[1].h.name = sDelete

\* C3: when the first argument equals no registered name and is a prefix of
\* two or more, no handler is invoked, nothing is sent, and the error is the
\* ambiguous-command error naming each matching name once and no other name.
C3_AmbiguousNamesAllMatches ==
    (HasFirst /\ First \notin DOMAIN cs /\ Cardinality(PrefixNames) >= 2) =>
        /\ R.inv = <<>>
        /\ R.out = <<>>
        /\ ~R.panic
        /\ R.err.kind = "ambigious command"
        /\ R.err.tok = First
        /\ SeqToSet(R.err.names) = PrefixNames
        /\ Len(R.err.names) = Cardinality(PrefixNames)

C3_Witness ==
    /\ HasFirst
    /\ First = sDel
    /\ {sDelete, sDeleted, sDeploy} \subseteq DOMAIN cs
    /\ R.err.kind = "ambigious command"
    /\ SeqToSet(R.err.names) = {sDelete, sDeleted}

\* C4 as stated: with exactly "help", "deploy" and "delete" registered,
\* "del" yields the ambiguous-command error listing "delete" and "deploy"
\* and no handler runs.
C4_DelIsAmbiguous ==
    (HasFirst /\ First = sDel /\ DOMAIN cs = {sHelp, sDeploy, sDelete}) =>
        /\ R.inv = <<>>
        /\ R.err.kind = "ambigious command"
        /\ SeqToSet(R.err.names) = {sDelete, sDeploy}

\* C4 amended: with exactly "help", "deploy" and "delete" registered, "del"
\* is a prefix of "delete" alone and is dispatched to it, as it is when
\* "deploy" is absent; it is "de" that yields the ambiguous-command error
\* listing "delete" and "deploy" and runs neither.
C4_DelResolvesDeIsAmbiguous ==
    /\ (HasFirst /\ First = sDel /\ DOMAIN cs \in {{sHelp, sDeploy, sDelete},
                                                    {sHelp, sDelete}}) =>
            /\ R = runCommandHandler(Ord, Background, cs[sDelete], W, InParsed)
            /\ R.inv # <<>>
            /\ R.inv[1].h = cs[sDelete]
    /\ (HasFirst /\ First = sDe /\ DOMAIN cs = {sHelp, sDeploy, sDelete}) =>
            /\ R.inv = <<>>
            /\ R.err.kind = "ambigious command"
            /\ SeqToSet(R.err.names) = {sDelete, sDeploy}

C4_Witness ==
    /\ HasFirst
    /\ First = sDel
    /\ DOMAIN cs = {sHelp, sDeploy, sDelete}
    /\ R.inv # <<>>
    /\ R.inv[1].h.name = sDelete

\* C5: when the first argument is a prefix of no registered name (so equal
\* to none), the call returns ErrUnknownCommand, invokes no handler, leaves
\* the message without a flag set and sends nothing.
C5_UnknownCommand ==
    (HasFirst /\ PrefixNames = {}) =>
        /\ R.err = ErrUnknownCommand
        /\ ~R.panic
        /\ R.inv = <<>>
        /\ R.m.FlagSet = None
        /\ R.out = <<>>

C5_Witness ==
    /\ HasFirst
    /\ First = sDeleted
    /\ sDelete \in DOMAIN cs
    /\ sDeleted \notin DOMAIN cs
    /\ R.err = ErrUnknownCommand

(* --------------------------- the dispatch loop ------------------------ *)

\* the reply a Raw, Heard or Background handler writes
Reply == <<"o", "k">>

\* the invocation record of a goroutine started for message p with writer
\* w; every one is given the context of the loop.  pc is the place the
\* goroutine is at, and nmsg the local nmsg of a Write it is in (None: it
\* is in none).  On the command path cur is the handler of the wrapper call
\* it is in (None: the handler Loop was given), ctx the context of that
\* call, name the wrapper's local name := m.args[0] and todo the texts it
\* has still to write.
Task(kind, p, w) ==
    [kind |-> kind, m |-> p, w |-> w, pc |-> 1, ctx |-> Background,
     cur |-> None, name |-> <<>>, todo |-> <<>>, nmsg |-> None]

\* what a running invocation is called once it has ended
Id(t) == [kind |-> t.kind, m |-> t.m]

\* the k-th message invocation by has sent: which sender got it, and what
Delivery(by, k, snt) == [to |-> snt.to, by |-> by, k |-> k, msg |-> snt.msg]

\* Write, first half: nmsg := w.msg; nmsg.Text = string(bs).  The second
\* half, w.Send(context.TODO(), &nmsg), reads w.snd when it is reached.
NewMsg(w, bs) == [w.msg EXCEPT !.Text = bs]

\* rw := newResponseWriter(a, *m, an); mrws <- smrw{rw, m}: the forwarding
\* task hands out one item at a time: with every sender on its own goroutine
\* it would go on receiving while items are still on offer
FwdTakeAsync(f, p, w) ==
    [pc |-> "select", held |-> Append(f.held, [m |-> p, w |-> w])]
\* rw := newResponseWriter(a, *m, an); mrws <- smrw{rw, m}: the forwarding
\* task offers the item on mrws and blocks until the main loop takes it
FwdTake(f, p, w) ==
    [pc |-> "send", held |-> Append(f.held, [m |-> p, w |-> w])]

\* the send on mrws has completed: back to the select
FwdSent(f, i) ==
    [pc |-> "select",
     held |-> SubSeq(f.held, 1, i - 1) \o SubSeq(f.held, i + 1, Len(f.held))]

\* the go statements the main loop issues for one item, in their order
Spawned(hd, mrw) ==
    (IF hd.raw # None THEN <<Task("raw", mrw.m, mrw.w)>> ELSE <<>>) \o
    (IF hd.hears # None THEN <<Task("hears", mrw.m, mrw.w)>> ELSE <<>>) \o
    (IF hd.cmd # None THEN <<Task("cmd", mrw.m, mrw.w)>> ELSE <<>>)

\* append(as, a): the adapters in the order Loop starts their forwarding
\* tasks, the primary one last
LoopAdapters == <<"a2", Primary>>

\* a Loop that goes to its range over the adapters and leaves the
\* Background handler out
LoopStartWithoutBackground ==
    /\ mainPc = "start"
    /\ ~crashed
    /\ mainPc' = "range"
    /\ UNCHANGED <<cmdVars, mmVars, calls, messagesRx, h, ctxDone, crashed, heap, origin, taken,
                   fwd, wr, tasks, started, finished, panics, sent>>
\* Loop up to its range over the adapters: runBackgroundHandler starts the
\* Background handler on a goroutine of its own, with a writer bound to the
\* primary adapter, and returns
LoopStart ==
    /\ mainPc = "start"
    /\ ~crashed
    /\ IF h.bg # None
       THEN /\ wr' = Append(wr, newResponseWriter(Primary, ZeroMessage,
                                                  TypeName(Primary)))
            /\ tasks' = tasks \cup {Task("bg", 0, Len(wr) + 1)}
            /\ started' = Append(started, [kind |-> "bg", m |-> 0])
       ELSE UNCHANGED <<wr, tasks, started>>
    /\ mainPc' = "range"
    /\ UNCHANGED <<cmdVars, mmVars, calls, messagesRx, h, ctxDone, crashed, heap, origin, taken,
                   fwd, finished, panics, sent>>

\* for _, a := range append(as, a) { go func(a Adapter) {...}(a) }: one go
\* statement, which starts the forwarding task of the next adapter; after
\* the last the main loop is at its select
StartForwarder ==
    LET k == CHOOSE i \in DOMAIN LoopAdapters :
                 /\ fwd[LoopAdapters[i]].pc = "unstarted"
                 /\ \A j \in 1..(i - 1) : fwd[LoopAdapters[j]].pc # "unstarted"
    IN  /\ mainPc = "range"
        /\ ~crashed
        /\ fwd' = [fwd EXCEPT ![LoopAdapters[k]].pc = "select"]
        /\ mainPc' = IF k = Len(LoopAdapters) THEN "select" ELSE "range"
        /\ UNCHANGED <<cmdVars, mmVars, calls, messagesRx, h, ctxDone, crashed, heap, origin, taken,
                       wr, tasks, started, finished, panics, sent>>

\* the owner of ctx cancels it
Cancel ==
    /\ ~ctxDone
    /\ ~crashed
    /\ ctxDone' = TRUE
    /\ UNCHANGED <<cmdVars, mmVars, calls, messagesRx, h, mainPc, crashed, heap, origin, fwd, wr,
                   taken, started, tasks, finished, panics, sent>>

\* the forwarding task of a: case m := <-a.Receive() and
\* rw := newResponseWriter(a, *m, an), up to the send on mrws.  The adapter
\* delivers its next message when the task receives it, and n messages at
\* most are delivered in all.
FwdRecvUpTo(a, n) ==
    /\ ~crashed
    /\ fwd[a].pc = "select"
    /\ Len(heap) < n
    /\ \E text \in TextsOf(a) :
          heap' = Append(heap, NewMessage(ChannelOf(a), "u1", text))
    /\ origin' = Append(origin, a)
    /\ wr' = Append(wr, newResponseWriter(a, heap'[Len(heap')], TypeName(a)))
    /\ fwd' = [fwd EXCEPT ![a] = FwdTake(fwd[a], Len(heap'), Len(wr'))]
    /\ UNCHANGED <<cmdVars, mmVars, calls, messagesRx, h, mainPc, ctxDone, crashed, taken, started, tasks,
                   finished, panics, sent>>

FwdRecv(a) == FwdRecvUpTo(a, MaxMsgs)

\* the forwarding task of a: case <-ctx.Done(): return
FwdReturn(a) ==
    /\ ~crashed
    /\ fwd[a].pc = "select"
    /\ ctxDone
    /\ fwd' = [fwd EXCEPT ![a].pc = "returned"]
    /\ UNCHANGED <<cmdVars, mmVars, calls, messagesRx, h, mainPc, ctxDone, crashed, heap, origin, wr, taken, started, tasks, finished, panics, sent>>

\* a counter vector: WithLabelValues(lvs...) names one counter, Inc() adds
\* one to it
WithLabelValues(an, channel, from) == <<an, channel, from>>
Inc(counter, l) ==
    [x \in DOMAIN counter \cup {l} |->
        IF x = l THEN (IF l \in DOMAIN counter THEN counter[l] + 1 ELSE 1)
        ELSE counter[x]]

\* the main loop: case mrw := <-mrws, the receive that completes the send
\* of the forwarding task of a.  Nothing makes the main loop wait for the
\* invocations of the messages it took before.
MainTake(a, i) ==
    /\ ~crashed
    /\ mainPc = "select"
    /\ i \in DOMAIN fwd[a].held
    /\ taken' = Append(taken, fwd[a].held[i])
    /\ fwd' = [fwd EXCEPT ![a] = FwdSent(fwd[a], i)]
    /\ mainPc' = "count"
    /\ UNCHANGED <<cmdVars, mmVars, calls, messagesRx, h, ctxDone, crashed, heap, origin, wr,
                   tasks, started, finished, panics, sent>>

\* the item the main loop is working on: its local mrw
Mrw == taken[Len(taken)]

\* how many go statements the main loop has issued for message p
Issued(p) == Cardinality({i \in DOMAIN started : started[i].m = p})

\* the main loop: messagesRx.WithLabelValues(an, mrw.m.Channel,
\* mrw.m.From).Inc(), with the an of Loop's own scope
MainCount ==
    /\ ~crashed
    /\ mainPc = "count"
    /\ messagesRx' = Inc(messagesRx,
                         WithLabelValues(TypeName(Primary),
                                         heap[Mrw.m].Channel,
                                         heap[Mrw.m].From))
    /\ mainPc' = IF Spawned(h, Mrw) = <<>> THEN "select" ELSE "go"
    /\ UNCHANGED <<cmdVars, mmVars, calls, h, ctxDone, crashed, heap, origin, fwd, wr, taken,
                   tasks, started, finished, panics, sent>>

\* the main loop: the next of its go statements for mrw (go runRawHandler,
\* go runHearsHandler, go runCommandHandler, each under its type
\* assertion); after the last the main loop is back at its select
MainGo ==
    LET k == Issued(Mrw.m) + 1
        t == Spawned(h, Mrw)[k]
    IN  /\ ~crashed
        /\ mainPc = "go"
        /\ tasks' = tasks \cup {t}
        /\ started' = Append(started, Id(t))
        /\ mainPc' = IF k = Len(Spawned(h, Mrw)) THEN "select" ELSE "go"
        /\ UNCHANGED <<cmdVars, mmVars, calls, messagesRx, h, ctxDone, crashed, heap, origin, fwd,
                       wr, taken, finished, panics, sent>>

\* the main loop: case <-ctx.Done(): return
MainReturn ==
    /\ ~crashed
    /\ mainPc = "select"
    /\ ctxDone
    /\ mainPc' = "returned"
    /\ UNCHANGED <<cmdVars, mmVars, calls, messagesRx, h, ctxDone, crashed, heap, origin, fwd, wr,
                   taken, started, tasks, finished, panics, sent>>

\* the invocation after a statement that is not a Write in progress
Advance(t) == [t EXCEPT !.pc = t.pc + 1, !.nmsg = None]

\* what a handler of the given kind does
BehaviourOf(t) ==
    CASE t.kind = "raw" -> h.raw[1]
      [] t.kind = "heard" -> h.heard
      [] t.kind = "bg" -> h.bg[1]

\* one step of the goroutine of a Raw, Heard or Background handler: a
\* setter of the writer; the first half of a Write, which copies the
\* writer's template; its second half, which hands the copy to the sender
\* the writer has by then and comes back from the adapter's Send; the
\* return of the function and of its goroutine; or a panic.  A panic under
\* runRawHandler or runBackgroundHandler is recovered by the deferred
\* glogPanic, after which the goroutine has its return left; the goroutine
\* of Heard defers nothing, so its panic ends the process.
HandlerStep(t) ==
    LET prog == Program(BehaviourOf(t))
        op == IF t.pc <= Len(prog) THEN prog[t.pc] ELSE "return"
        w == wr[t.w]
        copies == op = "Write" /\ t.nmsg = None
        sends == op = "Write" /\ t.nmsg # None
        dies == op = "panic" /\ t.kind = "heard"
    IN  /\ ~crashed
        /\ t.kind \in {"raw", "heard", "bg"}
        /\ wr' = CASE op = "SetChannel" -> [wr EXCEPT ![t.w] = SetChannel(w, "c9")]
                   [] op = "SetTo" -> [wr EXCEPT ![t.w] = SetTo(w, "u9")]
                   [] op = "SetSender" -> [wr EXCEPT ![t.w] = SetSender(w, Primary)]
                   [] OTHER -> wr
        /\ sent' = IF sends
                   THEN sent \cup {Delivery(Id(t), 1, Send(w, t.nmsg[1]))}
                   ELSE sent
        /\ panics' = IF op = "panic" THEN panics \cup {Id(t)} ELSE panics
        /\ crashed' = dies
        /\ tasks' = (tasks \ {t}) \cup
                    (CASE op = "return" \/ dies -> {}
                       [] op = "panic" /\ ~dies ->
                            {[t EXCEPT !.pc = Len(prog) + 1]}
                       [] copies ->
                            {[t EXCEPT !.nmsg = Some(NewMsg(w, Reply))]}
                       [] OTHER -> {Advance(t)})
        /\ finished' = IF op = "return" THEN finished \cup {Id(t)}
                       ELSE finished
        /\ UNCHANGED <<cmdVars, mmVars, calls, messagesRx, h, mainPc, ctxDone, heap, origin, fwd,
                       taken, started>>

\* one step of runHearsHandler: the test of the pattern, which on a match
\* gives the Heard callback a goroutine of its own (go h.Heard); then the
\* return
HearsRun(t) ==
    /\ ~crashed
    /\ t.kind = "hears"
    /\ IF t.pc = 1
       THEN /\ tasks' = (tasks \ {t}) \cup {Advance(t)} \cup
                         (IF HearsMatches(h.hears[1], heap[t.m].Text)
                          THEN {Task("heard", t.m, t.w)} ELSE {})
            /\ UNCHANGED finished
       ELSE /\ tasks' = tasks \ {t}
            /\ finished' = finished \cup {Id(t)}
    /\ UNCHANGED <<cmdVars, mmVars, calls, messagesRx, h, mainPc, ctxDone, crashed, heap, origin, fwd, wr, taken, started, panics, sent>>

\* the replies of one step, numbered on from the n replies the invocation
\* has sent before
Deliveries(out, by, n) == {Delivery(by, n + k, out[k]) : k \in DOMAIN out}

\* the iteration orders tried on the loop's command path, whose error (the
\* one place the order shows in) the go statement drops
LoopOrders ==
    {<<sHelp, sDelete, sDeleted, sDeploy>>, <<sDeploy, sDeleted, sDelete, sHelp>>}

\* the handler of the wrapper call the command invocation t is in
Cur(t) == IF t.cur = None THEN h.cmd[1] ELSE t.cur[1]

\* bch.subs.NextCommand(errnc.ctx, w, m) up to its call of the wrapper: the
\* handler it calls the wrapper on, None when it returns an error instead
NextHandler(ord, set, m) ==
    LET parsed == LazyParse(m)
        tok == parsed.args[1]
        matchesns == Matches(ord, set, tok)
        ematches == EMatches(ord, set, tok)
        how == Resolve(matchesns, ematches)
    IN  IF ~parsed.ok \/ Len(parsed.args) = 0 THEN None
        ELSE CASE how = "exact" -> Some(set[ematches[1]])
               [] how = "prefix" -> Some(set[matchesns[1]])
               [] OTHER -> None

\* what one step of a goroutine on the command path does: the message as
\* the step leaves it, what it gives to a sender, whether a handler
\* panicked, and the goroutine after the step (None: it has returned)
Step(m, out, panic, next) ==
    [m |-> m, out |-> out, panic |-> panic, next |-> next]

\* the steps of go runCommandHandler(ctx, ch, mrw.w, mrw.m), each of them
\* taken beside the other invocations of the message:
\*   1  the lazy parse and the test for an empty vector
\*   2  name := m.args[0] and the new flag set
\*   3  h.Command up to its first Write or its return: what the handler's
\*      own function does to the message, its panic, which the deferred
\*      glogPanic recovers, and, if it defers, the resolution of the
\*      sub-command, whose wrapper call goes on at 2
\*   4  one half of a Write of the handler or of the usage text after
\*      flag.ErrHelp: the copy of the writer's template, or the Send of the
\*      copy through the sender the writer has by then
\*   5  the return of the goroutine
CmdStepOf(t, ord) ==
    LET m == heap[t.m]
        hd == Cur(t)
        w == wr[t.w]
        parsed == LazyParse(m)
        r == bcf(t.ctx, hd, w, m)
        texts == [k \in DOMAIN r.out |-> r.out[k].msg.Text]
        sub == NextHandler(ord, hd.subs, r.m)
        writes(todo) == Some([t EXCEPT !.pc = IF todo = <<>> THEN 5 ELSE 4,
                                       !.todo = todo, !.nmsg = None])
    IN  CASE t.pc = 1 ->
                IF ~parsed.ok THEN Step(m, <<>>, FALSE, writes(<<>>))
                ELSE IF Len(parsed.args) = 0
                THEN Step([m EXCEPT !.args = Some(parsed.args)], <<>>, FALSE,
                          writes(<<>>))
                ELSE Step([m EXCEPT !.args = Some(parsed.args)], <<>>, FALSE,
                          Some([t EXCEPT !.pc = 2]))
          [] t.pc = 2 ->
                Step([m EXCEPT !.FlagSet = Some(NewFlagSet(m.args[1][1]))],
                     <<>>, FALSE,
                     Some([t EXCEPT !.pc = 3, !.name = m.args[1][1]]))
          [] t.pc = 3 ->
                IF r.panic THEN Step(r.m, <<>>, TRUE, writes(<<>>))
                ELSE IF r.err.kind = "errNextCommand"
                THEN Step(r.m, <<>>, FALSE,
                          IF sub = None THEN writes(<<>>)
                          ELSE Some([t EXCEPT !.pc = 2, !.cur = sub,
                                              !.ctx = NextCtx(t.ctx, r.err)]))
                ELSE IF r.err = ErrHelp
                THEN Step(r.m, <<>>, FALSE,
                          writes(texts \o <<cmdUsage(hd, t.name)>>))
                ELSE Step(r.m, <<>>, FALSE, writes(texts))
          [] t.pc = 4 ->
                IF t.nmsg = None
                THEN Step(m, <<>>, FALSE,
                          Some([t EXCEPT !.nmsg = Some(NewMsg(w, Head(t.todo)))]))
                ELSE Step(m, <<Send(w, t.nmsg[1])>>, FALSE,
                          writes(Tail(t.todo)))
          [] t.pc = 5 -> Step(m, <<>>, FALSE, None)

\* go runCommandHandler(ctx, ch, mrw.w, mrw.m): one step of the goroutine.
\* The command path works on the message and the writer the other
\* invocations hold too.
CmdRun(t, ord) ==
    LET s == CmdStepOf(t, ord)
        n == Cardinality({d \in sent : d.by = Id(t)})
    IN  /\ ~crashed
        /\ t.kind = "cmd"
        /\ heap' = [heap EXCEPT ![t.m] = s.m]
        /\ sent' = sent \cup Deliveries(s.out, Id(t), n)
        /\ panics' = IF s.panic THEN panics \cup {Id(t)} ELSE panics
        /\ tasks' = (tasks \ {t}) \cup
                    (IF s.next = None THEN {} ELSE {s.next[1]})
        /\ finished' = IF s.next = None THEN finished \cup {Id(t)}
                       ELSE finished
        /\ UNCHANGED <<cmdVars, mmVars, calls, messagesRx, h, mainPc, ctxDone, crashed, origin, fwd, wr, taken, started>>

\* message p as its adapter delivered it
AsReceived(p) == [heap[p] EXCEPT !.args = None, !.FlagSet = None]

\* the steps of a command invocation add up to the call: once the
\* invocation of message p has returned, with the writer as it was made, the
\* message, the replies and the recovered panic are those of one call of
\* runCommandHandler on the message as it was delivered
CommandStepsAgree ==
    \A i \in DOMAIN taken :
        LET p == taken[i].m
            w == wr[taken[i].w]
            by == [kind |-> "cmd", m |-> p]
        IN  (by \in finished /\ w.msg = AsReceived(p) /\ w.snd = origin[p]) =>
                \E ord \in LoopOrders :
                    LET r == runCommandHandler(ord, Background, h.cmd[1], w,
                                               AsReceived(p))
                    IN  /\ heap[p] = r.m
                        /\ {d \in sent : d.by = by} = Deliveries(r.out, by, 0)
                        /\ by \in panics <=>
                              \E k \in DOMAIN r.inv : r.inv[k].h.beh = "panic"

\* the process ended by the panic of a Heard callback while the command
\* invocation of the same message was between its parse and its flag set
CommandCutShort ==
    /\ crashed
    /\ \E t \in tasks :
          /\ t.kind = "cmd" /\ t.pc = 2
          /\ heap[t.m].args # None /\ heap[t.m].FlagSet = None
          /\ [kind |-> "heard", m |-> t.m] \in panics

\* the reply of a Raw invocation is with the sender while the invocation has
\* not returned
ReplySentNotReturned ==
    \E t \in tasks :
        /\ t.kind = "raw"
        /\ \E d \in sent : d.by = Id(t)
        /\ Id(t) \notin finished

\* the process ended by the panic of a Heard callback after the Background
\* handler gave its reply to the sender and before it returned, the
\* runHearsHandler that started the callback not having returned either
BackgroundCutShort ==
    /\ crashed
    /\ \E t \in tasks :
          /\ t.kind = "bg"
          /\ \E d \in sent : d.by = Id(t)
          /\ Id(t) \notin finished
    /\ \E t \in tasks : t.kind = "hears" /\ t.pc = 2

\* a reply of a command invocation is with the sender while the invocation
\* has not returned
CommandSentNotReturned ==
    \E t \in tasks :
        /\ t.kind = "cmd"
        /\ \E d \in sent : d.by = Id(t)
        /\ Id(t) \notin finished

InitLoop ==
    /\ cs = NewCommandSet
    /\ last = None
    /\ h \in LoopHandlers
    /\ LoopIdle
    /\ calls = <<>>
    /\ MMIdle

NextLoop ==
    \/ LoopStart
    \/ StartForwarder
    \/ Cancel
    \/ \E a \in Adapters : FwdRecv(a)
    \/ \E a \in Adapters : FwdReturn(a)
    \/ \E a \in Adapters, i \in 1..MaxMsgs : MainTake(a, i)
    \/ MainCount
    \/ MainGo
    \/ MainReturn
    \/ \E t \in tasks : HandlerStep(t)
    \/ \E t \in tasks : HearsRun(t)
    \/ \E t \in tasks, ord \in LoopOrders : CmdRun(t, ord)

SpecLoop == InitLoop /\ [][NextLoop]_vars

\* every goroutine that can run is run in the end; nothing makes the
\* adapters deliver a message or the owner of ctx cancel
FairLoop ==
    /\ SpecLoop
    /\ WF_vars(LoopStart)
    /\ WF_vars(StartForwarder)
    /\ WF_vars(MainCount)
    /\ WF_vars(MainGo)
    /\ WF_vars(MainReturn)
    /\ \A a \in Adapters : WF_vars(FwdReturn(a))
    /\ \A a \in Adapters : WF_vars(\E i \in 1..MaxMsgs : MainTake(a, i))
    /\ WF_vars(\E t \in tasks : HandlerStep(t) \/ HearsRun(t))
    /\ WF_vars(\E t \in tasks, ord \in LoopOrders : CmdRun(t, ord))

\* the handlers the loop is run with for MaxOrdered messages: one with a
\* Raw and a Background function that write a reply, and one with a
\* Background function that hears the messages of the primary adapter and
\* whose Heard callback panics
OrderHandlers ==
    {NewHandler(Some("ok"), None, "ok", None, Some("ok")),
     NewHandler(None, Some(PatDel), "panic", None, Some("ok"))}

InitOrder ==
    /\ cs = NewCommandSet
    /\ last = None
    /\ h \in OrderHandlers
    /\ LoopIdle
    /\ calls = <<>>
    /\ MMIdle

NextOrder ==
    \/ LoopStart
    \/ StartForwarder
    \/ Cancel
    \/ \E a \in Adapters : FwdRecvUpTo(a, MaxOrdered)
    \/ \E a \in Adapters : FwdReturn(a)
    \/ \E a \in Adapters, i \in 1..MaxOrdered : MainTake(a, i)
    \/ MainCount
    \/ MainGo
    \/ MainReturn
    \/ \E t \in tasks : HandlerStep(t)
    \/ \E t \in tasks : HearsRun(t)

SpecOrder == InitOrder /\ [][NextOrder]_vars

(* ------------------------ the loop: the claims ------------------------ *)

\* the messages the main loop has taken
TakenMsgs == {taken[i].m : i \in DOMAIN taken}

\* the invocation p is recovered from its panic and has its return left
ReturnLeft(p) ==
    \E t \in tasks :
        /\ Id(t) = p
        /\ t.nmsg = None
        /\ IF t.kind = "cmd" THEN t.pc = 5 /\ t.todo = <<>>
           ELSE t.kind \in {"raw", "bg"} /\ t.pc = Len(Program(BehaviourOf(t))) + 1

\* C6: a panic of a handler during its Raw, Hears (the Heard callback
\* included) or Command invocation never ends the process the loop runs in,
\* and the invocation that panicked is recovered, with nothing but its
\* return left: so later messages are still dispatched and the other
\* invocations go on.
C6_PanicNeverStopsLoop ==
    \A p \in panics : ~crashed /\ (p \in finished \/ ReturnLeft(p))

\* C7: once the context is cancelled, the main loop and every forwarding
\* task return in the end.
C7_CancelStopsAll ==
    ctxDone ~> (crashed \/ (mainPc = "returned" /\
                            \A a \in Adapters : fwd[a].pc = "returned"))

\* C8: no writer is shared by the invocations of one message: what an
\* invocation writes carries the channel and the recipient of the inbound
\* message and goes to the adapter it came from, unless that invocation's
\* own handler has set another one.
C8_WriterNotShared ==
    \A s \in sent :
        s.by.kind # "bg" =>
            LET own == IF s.by.kind \in {"raw", "heard"}
                       THEN BehaviourOf(s.by) ELSE "ok"
            IN  /\ s.msg.Channel = IF own = "redirect" THEN "c9"
                                   ELSE ChannelOf(origin[s.by.m])
                /\ s.msg.To = IF own = "private" THEN "u9" ELSE ""
                /\ s.to = IF own = "reroute" THEN Primary
                          ELSE origin[s.by.m]

\* C9: two messages of one adapter are taken by the main loop, and the go
\* statements of their invocations issued, in the order the adapter
\* delivered them (messages are numbered in delivery order), whatever the
\* other adapter's messages do.
C9_PerAdapterOrder ==
    /\ \A i, j \in DOMAIN taken :
          (i < j /\ origin[taken[i].m] = origin[taken[j].m]) =>
              taken[i].m < taken[j].m
    /\ \A i, j \in DOMAIN started :
          (i < j /\ started[i].m # 0 /\ started[j].m # 0
                 /\ origin[started[i].m] = origin[started[j].m]) =>
              started[i].m <= started[j].m

C9_Witness ==
    /\ Len(taken) = 3
    /\ origin[taken[1].m] = origin[taken[3].m]
    /\ origin[taken[2].m] # origin[taken[1].m]
    /\ taken[2].m < taken[1].m
    /\ \E i, j \in DOMAIN started :
          i < j /\ started[i].m = taken[1].m /\ started[j].m = taken[3].m

\* C10: while the context is not cancelled, every message an adapter has
\* delivered is taken by the main loop in the end,
C10_DeliveredIsTaken ==
    \A p \in 1..MaxMsgs :
        (Len(heap) >= p) ~> (ctxDone \/ p \in TakenMsgs)

\* What does hold of the loop, beside the claims above.  A message is taken
\* once, with a writer made for it alone,
TakenOnceWithOwnWriter ==
    /\ \A i, j \in DOMAIN taken : taken[i].m = taken[j].m => i = j
    /\ \A i \in DOMAIN taken : taken[i].w \in DOMAIN wr
    /\ \A i, j \in DOMAIN taken : taken[i].w = taken[j].w => i = j
    /\ TakenMsgs \subseteq DOMAIN heap

\* whose sender, when the main loop takes it, is the adapter of the message;
TakenWithSenderOfOrigin ==
    [][Len(taken') > Len(taken) =>
          LET e == taken'[Len(taken')]
          IN  wr'[e.w].snd = origin'[e.m]]_vars

\* the process lost to the panic of a Heard callback is all that keeps a
\* delivered message from being taken;
DeliveredIsTakenUnlessCrashed ==
    []<>(ctxDone \/ crashed \/ DOMAIN heap \subseteq TakenMsgs)

\* and the main loop itself does return once the context is cancelled.
MainLoopReturnsOnCancel ==
    ctxDone ~> (crashed \/ mainPc = "returned")

(* ------------------- the loop: which capability runs ------------------ *)

\* the go statements issued for capability kind and message p
Starts(kind, p) ==
    {i \in DOMAIN started : started[i] = [kind |-> kind, m |-> p]}

\* the invocation of capability kind for message p is under way
Running(kind, p) == \E t \in tasks : Id(t) = [kind |-> kind, m |-> p]

\* the invocation of capability kind for message p has returned
Returned(kind, p) == [kind |-> kind, m |-> p] \in finished

\* Raw is invoked at most once for a message, and only by a handler with
\* the capability for a message the main loop has taken
RawAtMostOnce ==
    \A p \in DOMAIN heap :
        /\ Cardinality(Starts("raw", p)) <= 1
        /\ ~(Running("raw", p) /\ Returned("raw", p))
        /\ (Running("raw", p) \/ Returned("raw", p)) => Starts("raw", p) # {}
        /\ Starts("raw", p) # {} => (h.raw # None /\ p \in TakenMsgs)

\* C11: a handler with the Raw capability has Raw invoked exactly once for
\* every message the main loop takes: never twice and never for another
\* message, and for a message that is taken the go statement of its Raw
\* invocation is issued in the end, whatever the text is, whether or not the
\* Hears pattern matches and whatever the command path makes of the message.
C11_RawOncePerMessage ==
    /\ []RawAtMostOnce
    /\ \A p \in 1..MaxMsgs :
          (h.raw # None /\ p \in TakenMsgs) ~> (Starts("raw", p) # {})

\* the process has ended, by the panic of the Heard callback of an earlier
\* message, between the main loop's receive of a message and the go
\* statement of its Raw invocation
TakenAndRawNeverStarted ==
    /\ crashed
    /\ h.raw # None
    /\ \E p \in TakenMsgs : Starts("raw", p) = {}

\* what does hold: in a process that has not ended the Raw invocation of
\* every message taken is started
RawStartedUnlessCrashed ==
    \A p \in 1..MaxMsgs :
        (h.raw # None /\ p \in TakenMsgs) ~>
            (crashed \/ Starts("raw", p) # {})

\* the Heard callback has been invoked for message p
HeardInvoked(p) ==
    \/ Running("heard", p)
    \/ Returned("heard", p)
    \/ [kind |-> "heard", m |-> p] \in panics

\* the pattern occurs in the text, at the places its anchors allow
Occurs(pat, text) ==
    \E i \in 1..(Len(text) + 1), j \in 0..Len(text) :
        /\ SubSeq(text, i, j) = pat.lit
        /\ j = i + Len(pat.lit) - 1
        /\ pat.start => i = 1
        /\ pat.end => j = Len(text)

\* what the invocation of capability kind for message p has sent
SentBy(kind, p) == {s \in sent : s.by = [kind |-> kind, m |-> p]}

\* the runHearsHandler of message p is at its k-th step
HearsAt(p, k) ==
    \E t \in tasks : Id(t) = [kind |-> "hears", m |-> p] /\ t.pc = k

\* the runHearsHandler of message p has tested the pattern
HearsTested(p) == HearsAt(p, 2) \/ Returned("hears", p)

\* in every state: once runHearsHandler has tested the pattern for a
\* message, Heard has been invoked if the text matches the pattern and not
\* otherwise, and never before; a message that does not match has nothing
\* sent for it by the Hears path and no panic raised there.
HeardIffMatch ==
    \A p \in DOMAIN heap :
        /\ HeardInvoked(p) <=>
              (h.hears # None /\ HearsTested(p)
                 /\ Occurs(h.hears[1], heap[p].Text))
        /\ ~(Running("heard", p) /\ Returned("heard", p))
        /\ (h.hears # None /\ ~Occurs(h.hears[1], heap[p].Text)) =>
              /\ SentBy("hears", p) = {} /\ SentBy("heard", p) = {}
              /\ [kind |-> "hears", m |-> p] \notin panics

\* in every step (HeardStartsOnce): a Heard invocation starts only in the step in which
\* the runHearsHandler of its message tests the pattern, which it does once,
\* so that Heard is invoked once; no step of the command path starts or ends
\* one.
HeardStartsOnce ==
    \A p \in DOMAIN heap :
        (Running("heard", p)' /\ ~Running("heard", p)) =>
            /\ HearsAt(p, 1) /\ HearsAt(p, 2)'
            /\ ~HeardInvoked(p)
            /\ Cardinality(Starts("hears", p)) = 1

\* the writer the main loop took message p with
WriterOf(p) == wr[(CHOOSE e \in SeqToSet(taken) : e.m = p).w]

HeardStartsOnceAlways == [][HeardStartsOnce]_vars

\* the message p is one whose Heard callback is due: the main loop has taken
\* it and its text matches the pattern of the handler
HeardDue(p) ==
    /\ h.hears # None
    /\ p \in TakenMsgs
    /\ Occurs(h.hears[1], heap[p].Text)

\* C12: for every message dispatched to a handler with the Hears capability
\* the Heard callback is invoked exactly once if the text matches the
\* pattern (never twice, and in the end once) and not at all otherwise; a
\* non-match sends nothing and raises no error, and the outcome of the
\* command path (a skip-hears result too) has no part in it.
C12_HeardOnceIffMatch ==
    /\ []HeardIffMatch
    /\ HeardStartsOnceAlways
    /\ \A p \in 1..MaxMsgs : HeardDue(p) ~> HeardInvoked(p)

\* the process has ended, by the panic of the Heard callback of an earlier
\* message, with a message taken whose text matches the pattern and whose
\* Heard callback was never invoked
TakenAndNeverHeard ==
    /\ crashed
    /\ \E p \in TakenMsgs : HeardDue(p) /\ ~HeardInvoked(p)

\* what does hold: in a process that has not ended the Heard callback of
\* every matching message taken is invoked
HeardUnlessCrashed ==
    \A p \in 1..MaxMsgs : HeardDue(p) ~> (crashed \/ HeardInvoked(p))

\* the command path of a matching message has written its usage, that is,
\* has returned the skip-hears signal, and the Heard callback of the message
\* was invoked all the same
HeardAfterSkipHears ==
    \E p \in TakenMsgs :
        /\ h.cmd # None
        /\ HeardDue(p)
        /\ \A ord \in LoopOrders :
              runCommandHandler(ord, Background, h.cmd[1], WriterOf(p),
                                NewMessage(heap[p].Channel, heap[p].From,
                                           heap[p].Text)).err = ErrSkipHears
        /\ SentBy("cmd", p) # {}
        /\ Returned("cmd", p) /\ HeardInvoked(p)

\* the text has a double quote that is never closed
OpenQuote(text) == Cardinality({i \in DOMAIN text : text[i] = "\""}) % 2 = 1

\* what a call on the command path made of a text it cannot tokenize
EndsBadCLI(r) == r.err = ErrBadCLI /\ ~r.panic /\ r.inv = <<>> /\ r.out = <<>>

\* for a message whose text cannot be tokenized the command path, entered
\* by runCommandHandler or by NextCommand, ends with ErrBadCLI, invokes no
\* command handler and sends nothing, and the message is left without an
\* argument vector; and once runHearsHandler has tested the pattern, Heard
\* is invoked if it matches and not otherwise
BadCLIEndsCommandPath ==
    \A p \in TakenMsgs :
        OpenQuote(heap[p].Text) =>
            /\ heap[p].args = None
            /\ SentBy("cmd", p) = {}
            /\ [kind |-> "cmd", m |-> p] \notin panics
            /\ \A ord \in LoopOrders :
                  /\ h.cmd # None =>
                        EndsBadCLI(runCommandHandler(ord, Background, h.cmd[1],
                                                     WriterOf(p), heap[p]))
                  /\ \A c \in {SubsFlat, SubsDeep} :
                        EndsBadCLI(NextCommand(ord, Background, c,
                                               WriterOf(p), heap[p]))
            /\ (h.hears # None /\ HearsTested(p)) =>
                  (HeardInvoked(p) <=> Occurs(h.hears[1], heap[p].Text))

\* C13: for a message whose text cannot be tokenized the command path ends
\* with ErrBadCLI, invokes no command handler and sends nothing; the Raw
\* invocation of the message takes place all the same, in the end, and so
\* does the Heard callback when the pattern matches.
C13_BadCLIEndsCommandPathOnly ==
    /\ []BadCLIEndsCommandPath
    /\ \A p \in 1..MaxMsgs :
          (h.raw # None /\ p \in TakenMsgs /\ OpenQuote(heap[p].Text)) ~>
              (Starts("raw", p) # {})
    /\ \A p \in 1..MaxMsgs :
          (HeardDue(p) /\ OpenQuote(heap[p].Text)) ~> HeardInvoked(p)

\* the process has ended, by the panic of the Heard callback of another
\* message, with a message taken whose text cannot be tokenized and whose
\* Raw invocation was never started
BadCLITakenAndRawNeverStarted ==
    /\ crashed
    /\ h.raw # None
    /\ \E p \in TakenMsgs : OpenQuote(heap[p].Text) /\ Starts("raw", p) = {}

\* the three invocations of a message with an open quote have returned, the
\* Heard callback too, and the raw handler and Heard have written
BadCLIRawAndHeardRan ==
    \E p \in TakenMsgs :
        /\ OpenQuote(heap[p].Text)
        /\ Returned("raw", p) /\ Returned("hears", p) /\ Returned("heard", p)
        /\ SentBy("raw", p) # {} /\ SentBy("heard", p) # {}

(* --------------------- the command path: the vector ------------------- *)

\* what a call on the command path did, the Text of the message left aside
Did(r) ==
    [err |-> r.err, panic |-> r.panic, out |-> r.out, args |-> r.m.args,
     inv |-> [k \in DOMAIN r.inv |->
                 [name |-> r.inv[k].h.name, args |-> r.inv[k].m.args]]]

\* q is what is left of p after some leading arguments are gone
IsSuffixOf(q, p) == \E k \in 0..Len(p) : q = SubSeq(p, k + 1, Len(p))

\* C14 as stated: a message that has been dispatched once and is dispatched
\* again has, after the second dispatch, the argument vector the first
\* dispatch left.
C14_RedispatchSameVector ==
    (Called /\ R.m.args # None) =>
        NextCommand(Ord, Background, cs, W, R.m).m.args = R.m.args

\* C14, amended: the Text of a message is tokenized only while its argument
\* vector is unset.  A dispatch of a message whose vector is set does the
\* same whatever its Text is; a dispatch of a fresh message whose Text
\* tokenizes does what the dispatch of the message with the vector set to
\* the tokens of Text does, for the sub-command dispatches too; the vector a
\* dispatch leaves is what is left of the vector it began with after the
\* handlers have taken their arguments, and a second dispatch begins with
\* that vector, not with the tokens of Text.
C14_TokenizedAtMostOnce ==
    Called =>
        /\ In.args # None =>
              \A t \in Texts :
                  Did(NextCommand(Ord, Background, cs, W, [In EXCEPT !.Text = t])) = Did(R)
        /\ (In.args = None /\ Tokenizes) =>
              Did(NextCommand(Ord, Background, cs, W, InParsed)) = Did(R)
        /\ R.m.args # None =>
              /\ IsSuffixOf(R.m.args[1], CallArgs)
              /\ \A k \in DOMAIN R.inv : IsSuffixOf(R.inv[k].m.args[1], CallArgs)
              /\ \A t \in Texts :
                    Did(NextCommand(Ord, Background, cs, W, [R.m EXCEPT !.Text = t]))
                        = Did(NextCommand(Ord, Background, cs, W, R.m))

\* a fresh message of two words went through a handler that took its own
\* name off the vector and deferred to a sub-command, which ran; a second
\* dispatch of the message begins with the shorter vector
C14_Witness ==
    /\ Called
    /\ In.args = None /\ Tokenizes /\ Len(CallArgs) = 2
    /\ Len(R.inv) = 2
    /\ R.inv[1].h.beh = "next"
    /\ R.inv[2].m.args = Some(Tail(CallArgs))
    /\ R.m.args = Some(Tail(CallArgs))
    /\ Did(NextCommand(Ord, Background, cs, W, R.m)) # Did(R)

(* ------------------------------ List: claims -------------------------- *)

\* a comes before b in the alphabet: at the first place where they differ a
\* has the smaller byte, or a ends there and b goes on
Before(a, b) ==
    \E k \in 0..Len(a) :
        /\ k <= Len(b)
        /\ SubSeq(a, 1, k) = SubSeq(b, 1, k)
        /\ \/ k = Len(a) /\ k < Len(b)
           \/ k < Len(a) /\ k < Len(b) /\ Code(a[k + 1]) < Code(b[k + 1])

\* C15: whatever order the map is ranged over in, the names List returns
\* are the registered names, each once, with "help" first when it is
\* registered and the other names after it in strictly increasing
\* alphabetical order.  (Stated of every set that is built; a dispatch
\* leaves the set as it is.)
C15_ListHelpFirstThenAlphabetical ==
    ~Called =>
        \A ord \in Orders :
            LET ns == List(ord, cs).ns
            IN  /\ SeqToSet(ns) = DOMAIN cs
                /\ Len(ns) = Cardinality(DOMAIN cs)
                /\ sHelp \in DOMAIN cs => ns[1] = sHelp
                /\ \A i, j \in DOMAIN ns :
                      (i < j /\ ns[i] # sHelp) => Before(ns[i], ns[j])

\* "help" and three more names are registered, the map was ranged over with
\* "help" last and the others in falling order, and a dispatch has listed
\* the names in its error
C15_Witness ==
    /\ Called
    /\ DOMAIN cs = NameUniverse
    /\ Ord = <<sDeploy, sDeleted, sDelete, sHelp>>
    /\ R.err = ErrMissingSubCommand(<<sHelp, sDelete, sDeleted, sDeploy>>)

\* C16: whatever order the map is ranged over in, the three sequences List
\* returns have one length, and at every place the description is the
\* description of the handler registered under the name at that place, and
\* the handler is that handler.
C16_ListStaysAligned ==
    ~Called =>
        \A ord \in Orders :
            LET l == List(ord, cs)
            IN  /\ Len(l.ns) = Len(l.ds) /\ Len(l.ns) = Len(l.chs)
                /\ \A i \in DOMAIN l.ns :
                      /\ l.ns[i] \in DOMAIN cs
                      /\ l.ds[i] = Describe(cs[l.ns[i]])[2]
                      /\ l.chs[i] = cs[l.ns[i]]

\* what does hold of the three sequences: one length, and the names and the
\* handlers aligned
ListNamesAndHandlersAligned ==
    ~Called =>
        \A ord \in Orders :
            LET l == List(ord, cs)
            IN  /\ Len(l.ns) = Len(l.ds) /\ Len(l.ns) = Len(l.chs)
                /\ \A i \in DOMAIN l.ns : l.chs[i] = cs[l.ns[i]]

(* --------------------- the command path: more claims ------------------ *)

\* ns names every handler of the set c once, "help" first and the others in
\* alphabetical order
NamesInListOrder(c, ns) ==
    /\ SeqToSet(ns) = DOMAIN c
    /\ Len(ns) = Cardinality(DOMAIN c)
    /\ sHelp \in DOMAIN c => ns[1] = sHelp
    /\ \A i, j \in DOMAIN ns : (i < j /\ ns[i] # sHelp) => Before(ns[i], ns[j])

\* the last handler whose function was called in the dispatch
LastInv == R.inv[Len(R.inv)]

\* C17: NextCommand on a message whose argument vector is empty invokes no
\* handler and returns the missing-sub-command error that names every
\* handler of the set, "help" first and the others in alphabetical order:
\* when the message has no tokens, and when a handler has consumed the last
\* token and deferred to its sub-commands, of that handler's set.
C17_EmptyVectorNamesSubCommands ==
    Called =>
        /\ (Tokenizes /\ CallArgs = <<>>) =>
              /\ R.inv = <<>> /\ R.out = <<>> /\ ~R.panic
              /\ R.err.kind = "required sub-command missing"
              /\ NamesInListOrder(cs, R.err.names)
        /\ (R.inv # <<>> /\ LastInv.h.beh \in {"next", "derive"}
                         /\ Len(LastInv.m.args[1]) = 1) =>
              /\ R.out = <<>> /\ ~R.panic
              /\ R.m.args = Some(<<>>)
              /\ R.err.kind = "required sub-command missing"
              /\ NamesInListOrder(LastInv.h.subs, R.err.names)

\* a handler took the only token and deferred to its three sub-commands,
\* which the map gave with "help" last and "deploy" ahead of "delete"
C17_Witness ==
    /\ Called
    /\ Len(R.inv) = 1
    /\ LastInv.h.beh = "next"
    /\ LastInv.m.args = Some(<<sDelete>>)
    /\ DOMAIN LastInv.h.subs = {sHelp, sDelete, sDeploy}
    /\ Ord = <<sDeploy, sDeleted, sDelete, sHelp>>
    /\ R.err = ErrMissingSubCommand(<<sHelp, sDelete, sDeploy>>)

\* the message had no token at all: its text was blank
C17_WitnessBlank ==
    /\ Called
    /\ In.args = None /\ In.Text = <<" ">>
    /\ DOMAIN cs = NameUniverse
    /\ R.err = ErrMissingSubCommand(<<sHelp, sDelete, sDeleted, sDeploy>>)

\* the function of handler hd returns the defer-to-sub-command outcome
Defers(hd) == hd.beh \in {"next", "derive"}

\* the context that outcome carries when the function was called under ctx
Carried(hd, ctx) == IF hd.beh = "derive" THEN Derive(ctx) ELSE ctx

\* the message as the function of hd leaves it when it was called with m
LeftBy(hd, m) ==
    IF hd.beh = "derive" THEN MsgParse(DefineFlag(m)) ELSE MsgParse(m)

\* C18: when the function of a handler returns the defer-to-sub-command
\* outcome with a context c, what follows in the dispatch is one call of
\* NextCommand on that handler's own CommandSet, with the message as the
\* function left it, the same writer and the context c: the handlers called
\* after it are those of that call, the first of them a handler of the set
\* called under c, and the call's error and message are those of the
\* dispatch.  The outcome itself is never what the dispatch returns.
C18_DeferRunsNextCommandOnce ==
    Called =>
        /\ R.err.kind # "errNextCommand"
        /\ \A k \in DOMAIN R.inv :
              Defers(R.inv[k].h) =>
                  LET e == R.inv[k]
                      c == Carried(e.h, e.ctx)
                      sub == NextCommand(Ord, c, e.h.subs, W, LeftBy(e.h, e.m))
                  IN  /\ SubSeq(R.inv, k + 1, Len(R.inv)) = sub.inv
                      /\ R.err = sub.err /\ R.panic = sub.panic
                      /\ R.m = sub.m
                      /\ R.out = sub.out
                      /\ \A i \in DOMAIN R.out : R.out[i].to = W.snd
                      /\ k < Len(R.inv) =>
                            /\ R.inv[k + 1].ctx = c
                            /\ R.inv[k + 1].m.Text = e.m.Text
                            /\ \E n \in DOMAIN e.h.subs :
                                  R.inv[k + 1].h = e.h.subs[n]

\* "deploy" deferred to its sub-commands under a context of its own, and its
\* sub-command "delete" ran under that context and wrote its reply
C18_Witness ==
    /\ Called
    /\ Len(R.inv) = 2
    /\ R.inv[1].h.beh = "derive" /\ R.inv[1].ctx = Background
    /\ R.inv[2].h = R.inv[1].h.subs[sDelete]
    /\ R.inv[2].ctx = Derive(Background)
    /\ R.err = NoError
    /\ Len(R.out) = 1

\* a usage message: the text the wrapper renders on a request for help
IsUsage(snt) == IsPrefixOf(<<"u", "s", "a", "g", "e", " ">>, snt.msg.Text)

\* the usage messages among what a dispatch has sent
Usages(out) == {i \in DOMAIN out : IsUsage(out[i])}

\* C19: when the function of a handler, registered in the set dispatched on
\* or in the sub-commands of such a handler at any depth, reports that help
\* was requested, the dispatch writes one usage message, that of this
\* handler under the name it was called by, through the writer of the
\* dispatch, and returns the skip-hears signal.  No dispatch returns the
\* help-requested error, and none that met no such handler writes a usage.
C19_HelpWritesOneUsage ==
    Called =>
        /\ R.err # ErrHelp
        /\ IF R.inv # <<>> /\ LastInv.h.beh = "help"
           THEN /\ R.err = ErrSkipHears
                /\ Cardinality(Usages(R.out)) = 1
                /\ \A i \in Usages(R.out) :
                      /\ R.out[i].to = W.snd
                      /\ R.out[i].msg.Channel = W.msg.Channel
                      /\ R.out[i].msg.Text =
                            cmdUsage(LastInv.h, LastInv.m.args[1][1])
           ELSE Usages(R.out) = {}

\* the sub-command "deleted" of a handler that deferred to its sub-commands
\* reported the request for help
C19_Witness ==
    /\ Called
    /\ Len(R.inv) = 2
    /\ Defers(R.inv[1].h)
    /\ R.inv[2].h.beh = "help" /\ R.inv[2].h.name = sDeleted
    /\ R.err = ErrSkipHears
    /\ Len(R.out) = 1 /\ IsUsage(R.out[1])

\* the handler that reported it was registered in the set dispatched on
C19_WitnessTop ==
    /\ Called
    /\ Len(R.inv) = 1
    /\ R.inv[1].h.beh = "help"
    /\ R.err = ErrSkipHears
    /\ Len(R.out) = 1 /\ IsUsage(R.out[1])

(* ---------------------- the loop: the Background handler -------------- *)

\* the writer StartBackground is given: the first one Loop makes
BackgroundWriter == wr[1]

\* C20: once Loop has started with a handler that has the Background
\* capability, StartBackground has been invoked once, by the go statement of
\* runBackgroundHandler (its goroutine is under way or has returned), ahead
\* of every other invocation, with the context of the loop and a writer of
\* its own that is bound to the primary adapter and to no message; however
\* many adapters deliver however many messages it is not invoked again, and
\* what it writes goes to the primary adapter.  Without the capability it is
\* never invoked.
C20_BackgroundStartedOnce ==
    IF h.bg # None /\ mainPc # "start"
    THEN /\ Cardinality(Starts("bg", 0)) = 1
         /\ started[1] = [kind |-> "bg", m |-> 0]
         /\ Running("bg", 0) # Returned("bg", 0)
         /\ \A t \in tasks :
               t.kind = "bg" => t.ctx = Background /\ t.w = 1 /\ t.m = 0
         /\ \A t \in tasks : t.kind # "bg" => t.w # 1
         /\ BackgroundWriter.snd = Primary
         /\ BackgroundWriter.msg = ZeroMessage
         /\ \A s \in SentBy("bg", 0) :
               s.to = Primary /\ s.msg = [ZeroMessage EXCEPT !.Text = Reply]
    ELSE /\ Starts("bg", 0) = {}
         /\ ~Running("bg", 0) /\ ~Returned("bg", 0)
         /\ SentBy("bg", 0) = {}

\* both adapters have delivered, three messages are taken, and the one
\* Background invocation has written and returned
C20_Witness ==
    /\ h.bg # None
    /\ Len(taken) = 3
    /\ {origin[p] : p \in TakenMsgs} = Adapters
    /\ Cardinality(Starts("bg", 0)) = 1
    /\ Returned("bg", 0)
    /\ SentBy("bg", 0) # {}

\* the Background invocation has written and returned before any adapter
\* has delivered a message
C20_WitnessNoMessage ==
    /\ h.bg # None
    /\ heap = <<>>
    /\ Returned("bg", 0)
    /\ SentBy("bg", 0) # {}

(* ------------------------------ metrics ------------------------------- *)

\* the messages the main loop has dispatched: those it has taken, but for
\* the one it has still to count
Dispatched ==
    TakenMsgs \ (IF mainPc = "count" THEN {Mrw.m} ELSE {})

\* the label values the received counter should carry for message p, under
\* the type name an
RxLabel(an, p) == WithLabelValues(an, heap[p].Channel, heap[p].From)

\* C25: for every message the main loop has dispatched, the received counter
\* labelled with the type name of the adapter the message arrived on, the
\* message's channel and its sender has been incremented once: it counts
\* the dispatched messages of that adapter, channel and sender, also for an
\* additional adapter whose type is not the primary adapter's.
C25_ReceivedCountedPerAdapter ==
    \A p \in Dispatched :
        LET l == RxLabel(TypeName(origin[p]), p)
        IN  /\ l \in DOMAIN messagesRx
            /\ messagesRx[l] =
                   Cardinality({q \in Dispatched :
                                   RxLabel(TypeName(origin[q]), q) = l})

\* What does hold: every dispatched message is counted once, under the type
\* name of the primary adapter, whichever adapter it arrived on.
ReceivedCountedUnderPrimary ==
    /\ \A p \in Dispatched :
          LET l == RxLabel(TypeName(Primary), p)
          IN  /\ l \in DOMAIN messagesRx
              /\ messagesRx[l] =
                     Cardinality({q \in Dispatched :
                                     RxLabel(TypeName(Primary), q) = l})
    /\ \A l \in DOMAIN messagesRx : l[1] = TypeName(Primary)

(* ----------------------- the message of a dispatch -------------------- *)

\* invocation t of the Raw or Hears capability (the Heard callback
\* included) runs in this step
Runs(t) == t.kind \in {"raw", "hears", "heard"} /\ t \notin tasks'

\* the command path has left no mark on message p
AsDelivered(p) == heap[p].args = None /\ heap[p].FlagSet = None

\* C26: the invocations of one message share no mutable Message: whenever
\* the Raw or Hears invocation of a message runs, the message it was given
\* is as the adapter delivered it, with no argument vector and no flag set
\* from the command path of the same message.
C26_MessageNotShared ==
    [][\A t \in tasks : Runs(t) => AsDelivered(t.m)]_vars

\* What does hold: the template of the message's writer is a copy made
\* before the dispatch, which the command path never changes.
TemplateIsACopy ==
    \A i \in DOMAIN taken :
        /\ wr[taken[i].w].msg.args = None
        /\ wr[taken[i].w].msg.FlagSet = None
        /\ wr[taken[i].w].msg.Text = heap[taken[i].m].Text

(* ------------------------- the ResponseWriter ------------------------- *)

\* One task owns a writer made for an inbound message, as Loop makes it,
\* and calls its methods one after the other; a copy is a writer of its own.
\* calls is the record of these calls, sent what the senders were given.

\* what the owner sets, writes and sends
SetChannels == {"c1", "c9"}
SetTos == {"u9"}
Written == {Reply, sEmpty}
Explicit == {NewMessage("c1", "u1", Reply)}

\* the one making the calls, and a call as it is recorded
Owner == [kind |-> "owner", m |-> 0]
Call(op, i, arg, ret) == [op |-> op, w |-> i, arg |-> arg, ret |-> ret]

\* what Write returns: len(bs), nil
WriteReturns(bs) == [n |-> Len(bs), err |-> NoError]

writerFrame == <<cmdVars, mmVars, h, mainPc, ctxDone, crashed, heap, origin, fwd,
                 taken, started, tasks, finished, panics, messagesRx>>

\* w.SetChannel(c)
WSetChannel(i, c) ==
    /\ Len(calls) < MaxCalls
    /\ wr' = [wr EXCEPT ![i] = SetChannel(wr[i], c)]
    /\ calls' = Append(calls, Call("SetChannel", i, c, None))
    /\ UNCHANGED <<writerFrame, sent>>

\* w.SetTo(to)
WSetTo(i, to) ==
    /\ Len(calls) < MaxCalls
    /\ wr' = [wr EXCEPT ![i] = SetTo(wr[i], to)]
    /\ calls' = Append(calls, Call("SetTo", i, to, None))
    /\ UNCHANGED <<writerFrame, sent>>

\* w.SetSender(s)
WSetSender(i, a) ==
    /\ Len(calls) < MaxCalls
    /\ wr' = [wr EXCEPT ![i] = SetSender(wr[i], a)]
    /\ calls' = Append(calls, Call("SetSender", i, a, None))
    /\ UNCHANGED <<writerFrame, sent>>

\* w.Write(bs)
WWrite(i, bs) ==
    /\ Len(calls) < MaxCalls
    /\ sent' = sent \cup {Delivery(Owner, Len(calls) + 1, Write(wr[i], bs))}
    /\ calls' = Append(calls, Call("Write", i, bs, Some(WriteReturns(bs))))
    /\ UNCHANGED <<writerFrame, wr>>

\* w.Send(ctx, m) with a message of the caller's
WSend(i, m) ==
    /\ Len(calls) < MaxCalls
    /\ sent' = sent \cup {Delivery(Owner, Len(calls) + 1, Send(wr[i], m))}
    /\ calls' = Append(calls, Call("Send", i, m, None))
    /\ UNCHANGED <<writerFrame, wr>>

\* w.Copy(): the new writer is the last of wr
WCopy(i) ==
    /\ Len(calls) < MaxCalls
    /\ Len(wr) < MaxWriters
    /\ wr' = Append(wr, Copy(wr[i]))
    /\ calls' = Append(calls, Call("Copy", i, None, Some(Len(wr) + 1)))
    /\ UNCHANGED <<writerFrame, sent>>

\* the writer of an inbound message, as the forwarding task of adapter a
\* makes it
InitWriter ==
    /\ cs = NewCommandSet
    /\ last = None
    /\ h = NewHandler(None, None, "ok", None, None)
    /\ mainPc = "start"
    /\ ctxDone = FALSE
    /\ crashed = FALSE
    /\ heap = <<>>
    /\ origin = <<>>
    /\ fwd = [a \in Adapters |-> [pc |-> "unstarted", held |-> <<>>]]
    /\ \E a \in Adapters :
          wr = <<newResponseWriter(a, NewMessage(ChannelOf(a), "u1", sDelete),
                                   TypeName(a))>>
    /\ taken = <<>>
    /\ started = <<>>
    /\ tasks = {}
    /\ finished = {}
    /\ panics = {}
    /\ sent = {}
    /\ messagesRx = <<>>
    /\ calls = <<>>
    /\ MMIdle

NextWriter ==
    \/ \E i \in DOMAIN wr, c \in SetChannels : WSetChannel(i, c)
    \/ \E i \in DOMAIN wr, to \in SetTos : WSetTo(i, to)
    \/ \E i \in DOMAIN wr, a \in Adapters : WSetSender(i, a)
    \/ \E i \in DOMAIN wr, bs \in Written : WWrite(i, bs)
    \/ \E i \in DOMAIN wr, m \in Explicit : WSend(i, m)
    \/ \E i \in DOMAIN wr : WCopy(i)

SpecWriter == InitWriter /\ [][NextWriter]_vars

(* -------------------- the ResponseWriter: the claims ------------------ *)

\* what the senders were given in the k-th call
SendsOf(k) == {s \in sent : s.by = Owner /\ s.k = k}

\* the calls op made on writer i before the k-th call, and the argument of
\* the last of them
Earlier(op, i, k) ==
    {j \in 1..(k - 1) : calls[j].op = op /\ calls[j].w = i}
LastArg(op, i, k) ==
    calls[CHOOSE j \in Earlier(op, i, k) :
              \A j2 \in Earlier(op, i, k) : j2 <= j].arg

\* the k-th call, a Write or a Send, obeys the last SetChannel and the last
\* SetTo made on its writer before it
CarriesTemplate(k) ==
    \A s \in SendsOf(k) :
        /\ Earlier("SetChannel", calls[k].w, k) # {} =>
              s.msg.Channel = LastArg("SetChannel", calls[k].w, k)
        /\ Earlier("SetTo", calls[k].w, k) # {} =>
              s.msg.To = LastArg("SetTo", calls[k].w, k)

\* the k-th call, a Write or a Send, delivers once, to the sender the last
\* SetSender on its writer named
GoesToSender(k) ==
    /\ Cardinality(SendsOf(k)) = 1
    /\ Earlier("SetSender", calls[k].w, k) # {} =>
          \A s \in SendsOf(k) : s.to = LastArg("SetSender", calls[k].w, k)

\* C22: after SetChannel(c) (SetTo(t)) on a writer every message delivered
\* through it later, by Write or by Send with a message of the caller's,
\* carries the channel c (the recipient t) until the next SetChannel
\* (SetTo); after SetSender(s) every later Write and Send is delivered to s
\* alone.
C22_SettersRuleLaterSends ==
    \A k \in DOMAIN calls :
        calls[k].op \in {"Write", "Send"} =>
            CarriesTemplate(k) /\ GoesToSender(k)

\* What does hold: the setters rule every later Write; a Send goes to the
\* sender set last, with the message exactly as the caller gave it.
SettersRuleLaterWrites ==
    \A k \in DOMAIN calls :
        /\ calls[k].op = "Write" => CarriesTemplate(k) /\ GoesToSender(k)
        /\ calls[k].op = "Send" =>
              /\ GoesToSender(k)
              /\ \A s \in SendsOf(k) : s.msg = calls[k].arg

\* the call made in this step, when one is made
CallMade == calls' # calls
ThisCall == calls'[Len(calls')]

\* a Write(bs): one message more, to the writer's sender, the template with
\* Text replaced by bs; the writers stay as they are; len(bs) and nil
WriteStep ==
    (CallMade /\ ThisCall.op = "Write") =>
        /\ sent' \ sent =
              {Delivery(Owner, Len(calls'),
                        [to |-> wr[ThisCall.w].snd,
                         msg |-> [wr[ThisCall.w].msg EXCEPT
                                     !.Text = ThisCall.arg]])}
        /\ sent \subseteq sent'
        /\ wr' = wr
        /\ ThisCall.ret = Some([n |-> Len(ThisCall.arg), err |-> NoError])

\* every Write so far has its own message, and the messages are numbered as
\* the writes were made
OneMessagePerWrite ==
    /\ \A k \in DOMAIN calls :
          calls[k].op = "Write" =>
              /\ Cardinality(SendsOf(k)) = 1
              /\ \A s \in SendsOf(k) : s.msg.Text = calls[k].arg
    /\ Cardinality(sent) =
          Cardinality({k \in DOMAIN calls : calls[k].op \in {"Write", "Send"}})

\* C23: every Write(bs) delivers exactly one message to the writer's current
\* sender before it returns, the current template with Text replaced by bs;
\* it leaves template and sender as they are and returns len(bs) and no
\* error; n writes make n messages, in the order of the writes.
C23_WriteIsOneMessage == []OneMessagePerWrite /\ [][WriteStep]_vars

\* two writes of different texts on a writer whose channel, recipient and
\* sender were set before: two messages
C23_Witness ==
    /\ Len(calls) = 4
    /\ calls[1].op \in {"SetChannel", "SetTo", "SetSender"}
    /\ calls[2].op = "Write" /\ calls[3].op = "Write"
    /\ calls[2].arg # calls[3].arg
    /\ calls[2].w = calls[1].w /\ calls[3].w = calls[1].w
    /\ calls[4].op = "Write"
    /\ Cardinality(sent) = 3

\* a Copy: the new writer has the sender and the label of the original and
\* the zero Message for its template; no writer there was is changed
CopyStep ==
    (CallMade /\ ThisCall.op = "Copy") =>
        /\ Len(wr') = Len(wr) + 1
        /\ ThisCall.ret = Some(Len(wr'))
        /\ wr'[Len(wr')].snd = wr[ThisCall.w].snd
        /\ wr'[Len(wr')].an = wr[ThisCall.w].an
        /\ wr'[Len(wr')].msg = ZeroMessage
        /\ \A j \in DOMAIN wr : wr'[j] = wr[j]

\* a setter changes the writer it is called on and no other
SetterStep ==
    (CallMade /\ ThisCall.op \in {"SetChannel", "SetTo", "SetSender"}) =>
        \A j \in DOMAIN wr : j # ThisCall.w => wr'[j] = wr[j]

\* C24: Copy returns a writer with the sender and the adapter label the
\* original has at that time and an empty template, whatever channel and
\* recipient were set on the original; afterwards a SetChannel, SetTo or
\* SetSender on one of the two leaves the other as it is.
C24_CopyIsIndependent == [][CopyStep /\ SetterStep]_vars

\* channel and sender were set on the original, the copy was made, and a
\* setter was called on each of the two afterwards
C24_Witness ==
    /\ Len(calls) = 4
    /\ calls[1].op = "SetChannel" /\ calls[1].w = 1 /\ calls[1].arg = "c9"
    /\ calls[2].op = "Copy" /\ calls[2].w = 1
    /\ calls[3].op = "SetTo" /\ calls[3].w = 2
    /\ calls[4].op = "SetSender" /\ calls[4].w = 1
    /\ wr[1].snd # wr[2].snd
    /\ wr[1].msg.To = "" /\ wr[2].msg.To = "u9"
    /\ wr[1].msg.Channel = "c9" /\ wr[2].msg.Channel = ""

(* ------------------- the command path: panics ------------------------ *)

\* the places in the dispatch at which the function called panicked
Panicked == {k \in DOMAIN R.inv : R.inv[k].h.beh = "panic"}

\* C27: when the function of a command handler panics, in the set
\* dispatched on or in the sub-commands of a handler at any depth, the
\* wrapper that called it recovers: the dispatch returns, with no error, no
\* handler is called after the one that panicked and nothing is written
\* through the writer.
C27_CommandPanicIsContained ==
    Called =>
        /\ ~R.panic
        /\ Panicked # {} =>
              /\ Panicked = {Len(R.inv)}
              /\ R.err = NoError
              /\ R.out = <<>>
              /\ \A k \in 1..(Len(R.inv) - 1) : Defers(R.inv[k].h)

\* the sub-command "delete" of a handler that deferred to its sub-commands
\* panicked
C27_Witness ==
    /\ Called
    /\ Len(R.inv) = 2
    /\ Defers(R.inv[1].h)
    /\ R.inv[2].h = R.inv[1].h.subs[sDelete]
    /\ R.inv[2].h.beh = "panic"
    /\ R.err = NoError /\ ~R.panic

\* the handler that panicked was registered in the set dispatched on
C27_WitnessTop ==
    /\ Called
    /\ Len(R.inv) = 1
    /\ R.inv[1].h.beh = "panic"
    /\ R.err = NoError /\ ~R.panic


(* ------------------- the flag set of a dispatch ----------------------- *)

\* the handler of invocation e was handed a flag set of its own: named after
\* the first argument of the message it was called with, no flag defined,
\* nothing in the output buffer
FreshFlagSet(e) ==
    /\ e.m.args # None /\ e.m.args[1] # <<>>
    /\ e.m.FlagSet = Some(NewFlagSet(e.m.args[1][1]))

\* the message of the dispatch went through a handler that defined a flag and
\* wrote to the output buffer before a sub-command was called
HadParentFlags ==
    /\ Called
    /\ \E k \in DOMAIN R.inv : k < Len(R.inv) /\ R.inv[k].h.beh = "derive"

\* C28: every handler a dispatch invokes, top-level or sub-command, is
\* called with a flag set named after the first argument the message has at
\* that call, with no flag defined and an empty output buffer, whatever a
\* parent command defined or printed; and so is every handler invoked when
\* the message a dispatch left behind is dispatched once more.
C28_FreshFlagSetPerDispatch ==
    Called =>
        /\ \A k \in DOMAIN R.inv : FreshFlagSet(R.inv[k])
        /\ R.m.FlagSet # None =>
              LET again == NextCommand(Ord, Background, cs, W, R.m)
              IN  \A k \in DOMAIN again.inv : FreshFlagSet(again.inv[k])

\* "deploy" defined a flag and printed to its buffer, then its sub-command
\* "delete" was called under the name it was asked for by
C28_Witness ==
    /\ HadParentFlags
    /\ Len(R.inv) = 2
    /\ LeftBy(R.inv[1].h, R.inv[1].m).FlagSet[1].flags = {"v"}
    /\ LeftBy(R.inv[1].h, R.inv[1].m).FlagSet[1].flagOut # <<>>
    /\ R.inv[2].h.name = sDelete
    /\ R.inv[2].m.FlagSet = Some(NewFlagSet(sDelete))

\* a message whose flag set holds a flag of an earlier dispatch is dispatched
\* again and reaches a handler
C28_WitnessAgain ==
    /\ Called
    /\ R.m.FlagSet # None
    /\ R.m.FlagSet[1].flags = {"v"}
    /\ NextCommand(Ord, Background, cs, W, R.m).inv # <<>>


(* ------------------ resolution and the map's order -------------------- *)

\* one order of iteration, against which the order of each dispatch is held
FirstOrder == <<sHelp, sDelete, sDeleted, sDeploy>>

\* the handlers whose function a call reached, in call order
Selected(r) == [k \in DOMAIN r.inv |-> r.inv[k].h]

\* two calls resolved alike: the same handlers, or the same kind of error on
\* the same argument naming the same set of commands
SameResolution(a, b) ==
    /\ Selected(a) = Selected(b)
    /\ a.err.kind = b.err.kind
    /\ a.err.tok = b.err.tok
    /\ SeqToSet(a.err.names) = SeqToSet(b.err.names)
    /\ a.panic = b.panic
    /\ a.out = b.out
    /\ a.m.args = b.m.args

\* C30: a call of NextCommand on the same CommandSet with the same argument
\* vector, made on another message after the dispatch and with the map
\* iterated in another order, selects the same handlers, for the
\* sub-commands too, or returns the same kind of error naming the same set
\* of commands.  Every order of a dispatch is held against one fixed order,
\* so any two orders agree.
C30_ResolutionIsDeterministic ==
    (Called /\ Tokenizes) =>
        SameResolution(R,
            NextCommand(FirstOrder, Background, cs, W,
                        [NewMessage("c1", "u1", <<>>) EXCEPT
                            !.args = Some(CallArgs)]))

\* an ambiguous argument was reported with the names in another sequence
\* than the fixed order gives, the set of names being the same
C30_Witness ==
    /\ HasFirst
    /\ Ord # FirstOrder
    /\ R.err.kind = "ambigious command"
    /\ Cardinality(SeqToSet(R.err.names)) >= 2
    /\ R.err.names # NextCommand(FirstOrder, Background, cs, W, In).err.names

\* a unique prefix selected its handler under an order that lists that
\* handler's name last
C30_WitnessPrefix ==
    /\ HasFirst
    /\ First \notin DOMAIN cs
    /\ Len(R.inv) = 1
    /\ Ord[Len(Ord)] = R.inv[1].h.name
    /\ Cardinality(DOMAIN cs) >= 3


(* ----------------------- the Mattermost adapter ----------------------- *)

\* the adapter given to Loop besides the primary one: a Mattermost adapter
\* logged in as user "bot" with username "b"
Mattermost == "a2"
BotId == "bot"
sAtBot == <<"@", "b">>

\* a websocket event: its kind, the post it carries (who posted, where,
\* what) and the channel_type entry of its data (None: the key is absent)
Event(kind, user, channel, message, ct) ==
    [Event |-> kind, UserId |-> user, ChannelId |-> channel,
     Message |-> message, channel_type |-> ct]

\* the events the server sends: posts of a user in an open, a direct and a
\* private channel (a command, a command addressed to the bot, no text),
\* a post of the bot itself, a post without a channel type, with a channel
\* type the adapter does not know, without a user, and an event that is no
\* post
Events ==
    {Event("posted", "u1", "c2", sDelete, Some("O")),
     Event("posted", "u1", "c2", sAtBot \o <<":", " ">> \o sDelete \o <<" ">>,
           Some("D")),
     Event("posted", "u1", "c2", <<>>, Some("P")),
     Event("posted", BotId, "c2", sDelete, Some("O")),
     Event("posted", "u1", "c2", sDelete, None),
     Event("posted", "u1", "c2", sDelete, Some("G")),
     Event("posted", "", "c2", sDelete, Some("O")),
     Event("typing", "u1", "c2", <<>>, None)}

RECURSIVE TrimLeft(_)
\* s without its leading spaces
TrimLeft(s) == IF s # <<>> /\ s[1] = " " THEN TrimLeft(Tail(s)) ELSE s
RECURSIVE TrimRight(_)
\* s without its trailing spaces
TrimRight(s) ==
    IF s # <<>> /\ s[Len(s)] = " "
    THEN TrimRight(SubSeq(s, 1, Len(s) - 1)) ELSE s
\* strings.Trim(s, " ")
Trim(s) == TrimRight(TrimLeft(s))

\* what (.*) takes: up to the end of the line
UpToNewline(s) ==
    IF \E i \in DOMAIN s : s[i] = "\n"
    THEN SubSeq(s, 1, (CHOOSE i \in DOMAIN s :
                          s[i] = "\n" /\ \A j \in 1..(i - 1) : s[j] # "\n") - 1)
    ELSE s

\* s.dirPat.FindStringSubmatch(text) for "^@b[:,]? (.*)": the submatch of
\* the group when the pattern matches, None when it does not
DirMatch(text) ==
    LET n == Len(sAtBot)
        k == IF Len(text) > n /\ text[n + 1] \in {":", ","} THEN n + 1 ELSE n
    IN  IF HasPrefix(text, sAtBot) /\ Len(text) > k /\ text[k + 1] = " "
        THEN Some(UpToNewline(SubSeq(text, k + 2, Len(text))))
        ELSE None

\* mma.mmMsgToHugot: the message made of a post, None for the nil it
\* returns when the post has no user, the event no channel type or one that
\* is neither "D", "P" nor "O"
mmMsgToHugot(me) ==
    LET uname == me.UserId
        ct == me.channel_type
        private == ct \in {Some("D"), Some("P")}
        dirMatch == DirMatch(me.Message)
        stripped == dirMatch # None /\ Len(dirMatch[1]) > 0
        tobot == ct = Some("D") \/ stripped
        text == IF stripped THEN Trim(dirMatch[1]) ELSE me.Message
    IN  IF uname = "" THEN None
        ELSE IF ct = None THEN None
        ELSE IF ct \notin {Some("D"), Some("P"), Some("O")} THEN None
        ELSE Some([Channel |-> me.ChannelId, From |-> uname, To |-> "",
                   UserID |-> me.UserId, Private |-> private,
                   ToBot |-> tobot, Text |-> text,
                   args |-> None, FlagSet |-> None])

\* the goroutine of mma.Receive on one event: what it puts on its channel.
\* <<>>: nothing (no post, or a post of the bot itself); otherwise the one
\* pointer mmMsgToHugot returned, nil (None) included
Receive(m) ==
    IF m.Event = "posted" /\ m.UserId # BotId THEN <<mmMsgToHugot(m)>> ELSE <<>>

\* the forwarding task of the Mattermost adapter: case m := <-a.Receive(),
\* rw := newResponseWriter(a, *m, an).  Every call of Receive starts a
\* goroutine with a channel of its own; an event is taken by the goroutine
\* of this call, or by the goroutine of an earlier call, whose channel
\* nobody reads any more: the event is lost then.  *m of a nil pointer
\* panics on a goroutine that recovers nothing.
FwdRecvMM(a, ev, taker) ==
    /\ ~crashed
    /\ fwd[a].pc = "select"
    /\ Len(heap) < MaxMsgs
    /\ taker = "earlier" => \E i \in DOMAIN origin : origin[i] = a
    /\ IF taker = "earlier" \/ Receive(ev) = <<>>
       THEN UNCHANGED <<crashed, heap, origin, wr, fwd>>
       ELSE IF Receive(ev)[1] = None
       THEN /\ crashed' = TRUE
            /\ UNCHANGED <<heap, origin, wr, fwd>>
       ELSE /\ heap' = Append(heap, Receive(ev)[1][1])
            /\ origin' = Append(origin, a)
            /\ wr' = Append(wr, newResponseWriter(a, heap'[Len(heap')],
                                                  "*mm.mma"))
            /\ fwd' = [fwd EXCEPT ![a] = FwdTake(fwd[a], Len(heap'), Len(wr'))]
            /\ UNCHANGED crashed
    /\ UNCHANGED <<cmdVars, mmVars, calls, messagesRx, h, mainPc, ctxDone, taken,
                   started, tasks, finished, panics, sent>>

\* the handlers the loop is run with: one whose Raw function writes a reply
\* and whose command returns an error of its own, and one whose Heard
\* callback writes a reply; nothing in them panics
MMHandlers ==
    {NewHandler(Some("ok"), None, "ok", Some(Leaf(sDelete, "fail")), None),
     NewHandler(None, Some(PatDel), "ok", None, None)}

InitMM ==
    /\ cs = NewCommandSet
    /\ last = None
    /\ h \in MMHandlers
    /\ LoopIdle
    /\ calls = <<>>
    /\ MMIdle

NextMM ==
    \/ LoopStart
    \/ StartForwarder
    \/ Cancel
    \/ FwdRecv(Primary)
    \/ \E ev \in Events, taker \in {"current", "earlier"} :
          FwdRecvMM(Mattermost, ev, taker)
    \/ \E a \in Adapters : FwdReturn(a)
    \/ \E a \in Adapters, i \in 1..MaxMsgs : MainTake(a, i)
    \/ MainCount
    \/ MainGo
    \/ MainReturn
    \/ \E t \in tasks : HandlerStep(t)
    \/ \E t \in tasks : HearsRun(t)
    \/ \E t \in tasks, ord \in LoopOrders : CmdRun(t, ord)

SpecMM == InitMM /\ [][NextMM]_vars

(* ---------------- the loop and what an adapter delivers --------------- *)

\* the main loop and the forwarding tasks have returned only if the context
\* is cancelled
ReturnsOnlyOnCancel ==
    /\ mainPc = "returned" => ctxDone
    /\ \A a \in Adapters : fwd[a].pc = "returned" => ctxDone

\* C21: whatever the adapters deliver and whatever errors the handlers
\* return, the process the loop runs in is never ended, and the main loop
\* and the forwarding tasks return only once the context is cancelled.
C21_LoopRunsUntilCancelled ==
    /\ ~crashed
    /\ ReturnsOnlyOnCancel

\* what does hold: neither a message, whatever its text, nor the error of a
\* command makes the main loop or a forwarding task return, and the command
\* that returned an error is over while the loop goes on
ErrorsAndTextsStopNothing ==
    /\ ReturnsOnlyOnCancel
    /\ (~crashed /\ ~ctxDone /\ mainPc \notin {"start", "range"}) =>
          /\ mainPc \in {"select", "count", "go"}
          /\ \A a \in Adapters : fwd[a].pc \in {"select", "send"}

\* the process ends only by a step of the Mattermost adapter's forwarding
\* task that starts no invocation and takes no message
EndsOnlyOnNilDelivery ==
    [][(crashed' /\ ~crashed) =>
          /\ fwd[Mattermost].pc = "select"
          /\ UNCHANGED <<heap, tasks, panics, fwd, mainPc>>]_vars


(* --------------- the wrapper and the empty argument vector ------------ *)

\* the wrapper is entered with message m and, once m is parsed, finds an
\* argument to name the flag set after
EntersWithArguments(m) == LazyParse(m).ok => LazyParse(m).args # <<>>

\* the command invocation t of the loop makes its call of the wrapper
CmdRuns(t) == t.kind = "cmd" /\ t.pc = 1 /\ t \in tasks /\ t \notin tasks'

\* C29: the wrapper's "no possible arguments" error is never met: each call
\* of the wrapper the loop makes is on a message whose argument vector is
\* non-empty once parsed, whatever the text of the message.
C29_NoArgumentsUnreachable ==
    [][\A t \in tasks :
          CmdRuns(t) =>
              /\ EntersWithArguments(heap[t.m])
              /\ \A ord \in LoopOrders :
                    runCommandHandler(ord, Background, h.cmd[1], wr[t.w],
                                      heap[t.m]).err # ErrNoArguments]_vars

\* what does hold: through NextCommand the wrapper is entered with a
\* non-empty vector only, for the sub-commands too, and a dispatch never
\* returns the wrapper's error
NextCommandEntersWithArguments ==
    Called =>
        /\ R.err # ErrNoArguments
        /\ \A k \in DOMAIN R.inv :
              /\ R.inv[k].m.args # None
              /\ R.inv[k].m.args[1] # <<>>


(* -------------------- the end of a command dispatch ------------------- *)

\* the ways a dispatch of a vector that tokenizes can end: in what the
\* function of the last handler returned or did (its error, nil, a recovered
\* panic, the skip of the hears handlers after a usage message), or in an
\* error of the resolution
EndsOfDispatch ==
    {"nil", "handler error", "ErrSkipHears", "ErrUnknownCommand",
     "ambigious command", "required sub-command missing"}

\* the length of the argument vector invocation k was called with
ArgsAt(k) == Len(R.inv[k].m.args[1])

\* C31: with handlers that take at least their own name off the vector
\* before they defer, a dispatch of a vector of n arguments calls at most n
\* handlers, each on a shorter vector than the one before, and ends in the
\* last handler's own result, in an unknown- or ambiguous-command error, or
\* in the missing-sub-command error; it never ends in the defer-to-
\* sub-command outcome.
C31_DispatchTerminates ==
    (Called /\ Tokenizes) =>
        /\ Len(R.inv) <= Len(CallArgs)
        /\ \A k \in DOMAIN R.inv :
              /\ ArgsAt(k) <= Len(CallArgs) - (k - 1)
              /\ k > 1 => ArgsAt(k) < ArgsAt(k - 1)
        /\ R.err.kind \in EndsOfDispatch
        /\ (R.err.kind = "required sub-command missing" /\ R.inv # <<>>) =>
              /\ Defers(R.inv[Len(R.inv)].h)
              /\ ArgsAt(Len(R.inv)) = 1

\* every argument of the vector named a handler and the last one ran
C31_Witness ==
    /\ HasFirst
    /\ Len(CallArgs) = 2
    /\ Len(R.inv) = 2
    /\ Defers(R.inv[1].h)
    /\ R.err = NoError

\* the arguments ran out under a handler that deferred
C31_WitnessRunOut ==
    /\ HasFirst
    /\ Len(R.inv) = Len(CallArgs)
    /\ Defers(R.inv[Len(R.inv)].h)
    /\ R.err.kind = "required sub-command missing"


(* ------------------ the older revision's resolution ------------------- *)

\* CommandSet.List of the older revision: names and descriptions in the
\* order the range over the map gives them
OlderList(ord, set) ==
    LET keys == Range(ord, set)
    IN  [ns |-> [i \in 1..Len(keys) |-> Describe(set[keys[i]])[1]],
         ds |-> [i \in 1..Len(keys) |-> Describe(set[keys[i]])[2]]]

RECURSIVE OlderNextCommand(_, _, _, _, _)
RECURSIVE RunCommandHandler(_, _, _, _, _)
RECURSIVE OlderCommand(_, _, _, _, _)

\* CommandSet.NextCommand of the older revision: the first argument is
\* looked up in the map
OlderNextCommand(ord, ctx, set, w, m) ==
    LET parsed == LazyParse(m)
        m1 == [m EXCEPT !.args = Some(parsed.args)]
    IN  IF ~parsed.ok THEN Outcome(ErrBadCLI, FALSE, <<>>, <<>>, m)
        ELSE IF Len(parsed.args) = 0
        THEN Outcome(ErrMissingSubCommand(OlderList(ord, set).ns), FALSE,
                     <<>>, <<>>, m1)
        ELSE IF parsed.args[1] \in DOMAIN set
        THEN RunCommandHandler(ord, ctx, set[parsed.args[1]], w, m1)
        ELSE Outcome(ErrUnknownCommand, FALSE, <<>>, <<>>, m1)

\* baseCommandHandler.Command of the older revision: ErrNextCommand is one
\* value that carries nothing, the sub-command runs under the caller's ctx
OlderCommand(ord, ctx, hd, w, m) ==
    LET r == bcf(ctx, hd, w, m)
    IN  IF r.panic \/ r.err.kind # "errNextCommand"
        THEN r
        ELSE LET n == OlderNextCommand(ord, ctx, hd.subs, w, r.m)
             IN  Outcome(n.err, n.panic, r.inv \o n.inv, r.out \o n.out, n.m)

\* RunCommandHandler of the older revision
RunCommandHandler(ord, ctx, hd, w, m) ==
    LET parsed == LazyParse(m)
        m1 == [m EXCEPT !.args = Some(parsed.args)]
        name == parsed.args[1]
        m2 == [m1 EXCEPT !.FlagSet = Some(NewFlagSet(name))]
        r == OlderCommand(ord, ctx, hd, w, m2)
    IN  IF ~parsed.ok THEN Outcome(ErrBadCLI, FALSE, <<>>, <<>>, m)
        ELSE IF Len(parsed.args) = 0
        THEN Outcome(ErrNoArguments, FALSE, <<>>, <<>>, m1)
        ELSE IF r.panic
        THEN Outcome(NoError, FALSE, r.inv, r.out, r.m)
        ELSE IF r.err = ErrHelp
        THEN Outcome(ErrSkipHears, FALSE, r.inv,
                     r.out \o <<Write(w, cmdUsage(hd, name))>>, r.m)
        ELSE r

(* --------------------- the older revision's loop ---------------------- *)

\* RunHandlers(ctx, h, a) works on one adapter, the one called primary here,
\* and has no forwarding task, no merged channel and no counter: its main
\* loop receives from the adapter itself, and every go statement is given a
\* writer of its own.

\* newResponseWriter(s, m) of the older revision: the writer carries no type
\* name
OlderNewResponseWriter(s, m) == newResponseWriter(s, m, "")

\* the handlers RunHandlers is run with: one with the three capabilities,
\* whose Raw function sets the channel of its writer, whose Heard callback
\* writes a reply and whose command asks for its usage; one with a
\* Background function, whose Heard callback panics; and one whose command
\* defers to its sub-commands
OlderHandlers ==
    {NewHandler(Some("redirect"), Some(PatDel), "ok",
                Some(Leaf(sDelete, "help")), None),
     NewHandler(None, Some(PatDel), "panic", None, Some("ok")),
     NewHandler(Some("panic"), None, "ok",
                Some(NewCommandHandler(sDelete, "next", SubsFlat)), None)}

\* RunBackgroundHandler(ctx, bh, newResponseWriter(a, Message{})): the
\* writer is bound to the adapter and to the zero message, and the go
\* statement gives StartBackground a goroutine of its own
RunBackgroundHandler ==
    /\ wr' = Append(wr, OlderNewResponseWriter(Primary, ZeroMessage))
    /\ tasks' = tasks \cup {Task("bg", 0, Len(wr) + 1)}
    /\ started' = Append(started, [kind |-> "bg", m |-> 0])

\* RunHandlers up to its for: RunBackgroundHandler when h is a
\* BackgroundHandler
RunHandlersStart ==
    /\ mainPc = "start"
    /\ ~crashed
    /\ IF h.bg # None
       THEN RunBackgroundHandler
       ELSE UNCHANGED <<wr, tasks, started>>
    /\ mainPc' = "select"
    /\ UNCHANGED <<cmdVars, mmVars, calls, messagesRx, h, ctxDone, crashed, heap, origin, taken,
                   fwd, finished, panics, sent>>

\* the main loop of RunHandlers: case m := <-a.Receive().  The adapter
\* delivers its next message when the loop receives it, MaxMsgs messages at
\* most; no writer is made with the message.
RunHandlersReceive ==
    /\ ~crashed
    /\ mainPc = "select"
    /\ Len(heap) < MaxMsgs
    /\ \E text \in UNION {TextsOf(a) : a \in Adapters} :
          heap' = Append(heap, NewMessage(ChannelOf(Primary), "u1", text))
    /\ origin' = Append(origin, Primary)
    /\ taken' = Append(taken, [m |-> Len(heap'), w |-> 0])
    /\ mainPc' = IF Spawned(h, taken'[Len(taken')]) = <<>> THEN "select"
                 ELSE "go"
    /\ UNCHANGED <<cmdVars, mmVars, calls, messagesRx, h, ctxDone, crashed, fwd, wr, tasks,
                   started, finished, panics, sent>>

\* the main loop of RunHandlers: the next of its go statements for m (go
\* RunRawHandler, go RunHearsHandler, go RunCommandHandler, each under its
\* type assertion), whose argument newResponseWriter(a, *m) makes a writer
\* for this invocation alone, from the message as it is by then; after the
\* last the main loop is back at its select
RunHandlersGo ==
    LET k == Issued(Mrw.m) + 1
        t == [Spawned(h, Mrw)[k] EXCEPT !.w = Len(wr) + 1]
    IN  /\ ~crashed
        /\ mainPc = "go"
        /\ wr' = Append(wr, OlderNewResponseWriter(Primary, heap[Mrw.m]))
        /\ tasks' = tasks \cup {t}
        /\ started' = Append(started, Id(t))
        /\ mainPc' = IF k = Len(Spawned(h, Mrw)) THEN "select" ELSE "go"
        /\ UNCHANGED <<cmdVars, mmVars, calls, messagesRx, h, ctxDone, crashed, heap, origin, fwd,
                       taken, finished, panics, sent>>

\* the main loop of RunHandlers: case <-ctx.Done(): return
RunHandlersReturn == MainReturn

\* one step of the goroutine RunBackgroundHandler started, of RunRawHandler
\* or of go h.Heard: the functions, the writer's methods and glogPanic are
\* those of the newer revision
RunRawHandler(t) == HandlerStep(t)

\* one step of RunHearsHandler: the test of the pattern, with go h.Heard on a
\* match, and the return, as in the newer revision
RunHearsHandler(t) == HearsRun(t)

\* bch.subs.NextCommand(ctx, w, m) of the older revision up to its call of
\* RunCommandHandler: the handler registered under the first argument, None
\* when it returns an error instead
OlderNextHandler(set, m) ==
    LET parsed == LazyParse(m)
    IN  IF ~parsed.ok \/ Len(parsed.args) = 0 THEN None
        ELSE IF parsed.args[1] \in DOMAIN set THEN Some(set[parsed.args[1]])
        ELSE None

\* the steps of go RunCommandHandler(ctx, ch, newResponseWriter(a, *m), m),
\* numbered as those of the newer revision's goroutine; a sub-command is
\* looked up by its exact name and runs under the context of its caller
OlderCmdStepOf(t) ==
    LET m == heap[t.m]
        hd == Cur(t)
        w == wr[t.w]
        parsed == LazyParse(m)
        r == bcf(t.ctx, hd, w, m)
        texts == [k \in DOMAIN r.out |-> r.out[k].msg.Text]
        sub == OlderNextHandler(hd.subs, r.m)
        writes(todo) == Some([t EXCEPT !.pc = IF todo = <<>> THEN 5 ELSE 4,
                                       !.todo = todo, !.nmsg = None])
    IN  CASE t.pc = 1 ->
                IF ~parsed.ok THEN Step(m, <<>>, FALSE, writes(<<>>))
                ELSE IF Len(parsed.args) = 0
                THEN Step([m EXCEPT !.args = Some(parsed.args)], <<>>, FALSE,
                          writes(<<>>))
                ELSE Step([m EXCEPT !.args = Some(parsed.args)], <<>>, FALSE,
                          Some([t EXCEPT !.pc = 2]))
          [] t.pc = 2 ->
                Step([m EXCEPT !.FlagSet = Some(NewFlagSet(m.args[1][1]))],
                     <<>>, FALSE,
                     Some([t EXCEPT !.pc = 3, !.name = m.args[1][1]]))
          [] t.pc = 3 ->
                IF r.panic THEN Step(r.m, <<>>, TRUE, writes(<<>>))
                ELSE IF r.err.kind = "errNextCommand"
                THEN Step(r.m, <<>>, FALSE,
                          IF sub = None THEN writes(<<>>)
                          ELSE Some([t EXCEPT !.pc = 2, !.cur = sub]))
                ELSE IF r.err = ErrHelp
                THEN Step(r.m, <<>>, FALSE,
                          writes(texts \o <<cmdUsage(hd, t.name)>>))
                ELSE Step(r.m, <<>>, FALSE, writes(texts))
          [] t.pc = 4 ->
                IF t.nmsg = None
                THEN Step(m, <<>>, FALSE,
                          Some([t EXCEPT !.nmsg = Some(NewMsg(w, Head(t.todo)))]))
                ELSE Step(m, <<Send(w, t.nmsg[1])>>, FALSE,
                          writes(Tail(t.todo)))
          [] t.pc = 5 -> Step(m, <<>>, FALSE, None)

\* go RunCommandHandler(ctx, ch, newResponseWriter(a, *m), m): one step of
\* the goroutine.  The command path works on the message the other
\* invocations hold too, and on a writer of its own.
OlderCmdRun(t) ==
    LET s == OlderCmdStepOf(t)
        n == Cardinality({d \in sent : d.by = Id(t)})
    IN  /\ ~crashed
        /\ t.kind = "cmd"
        /\ heap' = [heap EXCEPT ![t.m] = s.m]
        /\ sent' = sent \cup Deliveries(s.out, Id(t), n)
        /\ panics' = IF s.panic THEN panics \cup {Id(t)} ELSE panics
        /\ tasks' = (tasks \ {t}) \cup
                    (IF s.next = None THEN {} ELSE {s.next[1]})
        /\ finished' = IF s.next = None THEN finished \cup {Id(t)}
                       ELSE finished
        /\ UNCHANGED <<cmdVars, mmVars, calls, messagesRx, h, mainPc, ctxDone, crashed, origin, fwd, wr, taken, started>>

InitOlder ==
    /\ cs = NewCommandSet
    /\ last = None
    /\ h \in OlderHandlers
    /\ LoopIdle
    /\ calls = <<>>
    /\ MMIdle

NextOlder ==
    \/ RunHandlersStart
    \/ Cancel
    \/ RunHandlersReceive
    \/ RunHandlersGo
    \/ RunHandlersReturn
    \/ \E t \in tasks : RunRawHandler(t)
    \/ \E t \in tasks : RunHearsHandler(t)
    \/ \E t \in tasks : OlderCmdRun(t)

SpecOlder == InitOlder /\ [][NextOlder]_vars

\* the invocations of RunHandlers are those of one message each, with a
\* writer each: no two invocations started by the main loop have one writer,
\* the Heard callback has the writer of the RunHearsHandler that started it,
\* and a writer is bound to the adapter when its invocation starts
OlderWriterPerInvocation ==
    /\ \A t, u \in tasks :
          (t.w = u.w /\ t # u) =>
              (t.m = u.m /\ {t.kind, u.kind} = {"hears", "heard"})
    /\ \A t \in tasks : t.w \in DOMAIN wr
    /\ \A t \in tasks : (t.pc = 1 /\ t.nmsg = None) => wr[t.w].snd = Primary
    /\ messagesRx = <<>>
    /\ \A a \in Adapters : fwd[a].pc = "unstarted"

\* the steps of a command invocation of RunHandlers add up to the call:
\* once the invocation of message p has returned, the message, the replies
\* and the recovered panic are those of one call of RunCommandHandler on the
\* message as it was delivered
OlderCommandStepsAgree ==
    \A p \in DOMAIN heap :
        LET by == [kind |-> "cmd", m |-> p]
            w == OlderNewResponseWriter(Primary, AsReceived(p))
        IN  by \in finished =>
                \E ord \in LoopOrders :
                    LET r == RunCommandHandler(ord, Background, h.cmd[1], w,
                                               AsReceived(p))
                    IN  /\ heap[p] = r.m
                        /\ {d \in sent : d.by = by} = Deliveries(r.out, by, 0)
                        /\ by \in panics <=>
                              \E k \in DOMAIN r.inv : r.inv[k].h.beh = "panic"

\* the Raw invocation of a message has set the channel of its writer, and
\* the usage the command invocation of the same message wrote after that
\* went to the channel of the message
OlderRawSetForItself ==
    \E p \in DOMAIN heap :
        /\ h.raw = Some("redirect")
        /\ \E d \in SentBy("raw", p) : d.msg.Channel = "c9"
        /\ \E d \in SentBy("cmd", p) : d.msg.Channel = ChannelOf(Primary)
        /\ \E d \in SentBy("heard", p) : d.msg.Channel = ChannelOf(Primary)

\* what the older revision does on the message and the map order of the
\* dispatch
Older == OlderNextCommand(Ord, Background, cs, W, In)

\* the handlers the older revision reached are the first ones the newer
\* reaches, each called on the same vector
OlderHandlersReached ==
    \A k \in DOMAIN Older.inv :
        /\ k \in DOMAIN R.inv
        /\ R.inv[k].h = Older.inv[k].h
        /\ R.inv[k].m.args = Older.inv[k].m.args

\* the outcome of the newer revision is one the older revision has: the
\* very same under some order of the map (the older one lists the names of
\* a missing sub-command in map order, the newer one sorted)
AnOutcomeOfOlder ==
    /\ SameResolution(R, Older)
    /\ R.err # Older.err =>
          \E o \in Orders :
              OlderNextCommand(o, Background, cs, W, In).err = R.err

\* C32: on every CommandSet and argument vector the handlers the older
\* NextCommand (exact names only) dispatches to are dispatched to by the
\* newer one as well, on the same vectors; and unless the older one returns
\* ErrUnknownCommand the newer one does what the older one does: the same
\* handlers, the same error, the same replies, the same vector left.
C32_NewerRefinesOlder ==
    Called =>
        /\ OlderHandlersReached
        /\ Older.err # ErrUnknownCommand => AnOutcomeOfOlder

\* the older revision dispatched "delete" by its name, "deleted" being
\* registered too, and so did the newer
C32_Witness ==
    /\ HasFirst
    /\ First = sDelete
    /\ {sDelete, sDeleted} \subseteq DOMAIN cs
    /\ Older.inv # <<>>
    /\ Older.inv[1].h = cs[sDelete]
    /\ R.inv[1].h = cs[sDelete]

\* the two differ: the older revision knows no command of that name, the
\* newer dispatches the one it is a prefix of
C32_WitnessDiffer ==
    /\ HasFirst
    /\ Older.err = ErrUnknownCommand
    /\ R.err = NoError
    /\ Len(R.inv) > Len(Older.inv)

\* a missing sub-command that the older revision reports with the names in
\* map order and the newer with the names sorted
C32_WitnessListed ==
    /\ Called
    /\ R.err.kind = "required sub-command missing"
    /\ R.err # Older.err
    /\ SeqToSet(R.err.names) = SeqToSet(Older.err.names)


(* --------------- the Mattermost adapter's reader tasks ---------------- *)

\* out := make(chan *hugot.Message, 1): what the channel of a reader holds
\* at most
OutCap == 1

\* the k-th post of another user in an open channel; each has a text of
\* its own
PostText(k) == [i \in 1..k |-> "x"]
Post(k) == Event("posted", "u1", "c2", PostText(k), Some("O"))

\* a reader goroutine of mma.Receive with the channel it returned: what the
\* channel holds, and what the goroutine is about to send on it
NewReader == [out |-> <<>>, holding |-> <<>>]

\* the forwarding task enters its select: a.Receive() is called, makes a
\* channel and starts a goroutine that sends on it
FwdReceive(a) ==
    /\ ~crashed
    /\ fwd[a].pc = "select"
    /\ recvCh = 0
    /\ mma' = [mma EXCEPT !.readers = Append(@, NewReader)]
    /\ recvCh' = Len(mma.readers) + 1
    /\ UNCHANGED <<cmdVars, loopVars, calls>>

\* reader r: case m := <-s.ws.EventChannel, up to the send on its channel
ReaderRead(r) ==
    /\ ~crashed
    /\ mma.readers[r].holding = <<>>
    /\ mma.read < MaxPosts
    /\ mma' = [mma EXCEPT !.read = @ + 1,
                          !.readers[r].holding = Receive(Post(mma.read + 1))]
    /\ UNCHANGED <<cmdVars, loopVars, calls, recvCh>>

\* reader r: out <- s.mmMsgToHugot(m), which blocks while the channel is full
ReaderSend(r) ==
    /\ ~crashed
    /\ mma.readers[r].holding # <<>>
    /\ Len(mma.readers[r].out) < OutCap
    /\ mma' = [mma EXCEPT !.readers[r].out = Append(@, mma.readers[r].holding[1]),
                          !.readers[r].holding = <<>>]
    /\ UNCHANGED <<cmdVars, loopVars, calls, recvCh>>

\* the forwarding task: case m := <-a.Receive() on the channel this select
\* got, rw := newResponseWriter(a, *m, an), and on to the send on mrws
FwdRecvFrom(a) ==
    /\ ~crashed
    /\ fwd[a].pc = "select"
    /\ recvCh # 0
    /\ mma.readers[recvCh].out # <<>>
    /\ Len(heap) < MaxMsgs
    /\ mma' = [mma EXCEPT !.readers[recvCh].out = Tail(@)]
    /\ recvCh' = 0
    /\ IF Head(mma.readers[recvCh].out) = None
       THEN /\ crashed' = TRUE
            /\ UNCHANGED <<heap, origin, wr, fwd>>
       ELSE /\ heap' = Append(heap, Head(mma.readers[recvCh].out)[1])
            /\ origin' = Append(origin, a)
            /\ wr' = Append(wr, newResponseWriter(a, heap'[Len(heap')],
                                                  "*mm.mma"))
            /\ fwd' = [fwd EXCEPT ![a] = FwdTake(fwd[a], Len(heap'), Len(wr'))]
            /\ UNCHANGED crashed
    /\ UNCHANGED <<cmdVars, calls, messagesRx, h, mainPc, ctxDone, taken,
                   started, tasks, finished, panics, sent>>

\* the forwarding task of the Mattermost adapter: case <-ctx.Done(): return.
\* The channel operand a.Receive() of the select is evaluated before either
\* case can be chosen, so the task returns with a reader of this select left
\* behind
FwdReturnMM(a) ==
    /\ recvCh # 0
    /\ FwdReturn(a)

\* the handler the loop is run with: a Raw function that writes a reply
RecvHandlers == {NewHandler(Some("ok"), None, "ok", None, None)}

InitRecv ==
    /\ cs = NewCommandSet
    /\ last = None
    /\ h \in RecvHandlers
    /\ LoopIdle
    /\ calls = <<>>
    /\ MMIdle

NextRecv ==
    \/ LoopStart
    \/ StartForwarder
    \/ Cancel
    \/ FwdReceive(Mattermost)
    \/ \E r \in DOMAIN mma.readers : ReaderRead(r)
    \/ \E r \in DOMAIN mma.readers : ReaderSend(r)
    \/ FwdRecvFrom(Mattermost)
    \/ FwdReturn(Primary)
    \/ FwdReturnMM(Mattermost)
    \/ \E a \in Adapters, i \in 1..MaxMsgs : MainTake(a, i)
    \/ MainCount
    \/ MainGo
    \/ MainReturn
    \/ \E t \in tasks : HandlerStep(t)

SpecRecv == InitRecv /\ [][NextRecv]_vars

(* ------------------ every post reaches the loop once ------------------ *)

\* the posts a reader has taken from the event source and not passed on
HeldBy(r) == Len(mma.readers[r].out) + Len(mma.readers[r].holding)

RECURSIVE HeldUpTo(_)
\* the posts held by the readers 1..k
HeldUpTo(k) == IF k = 0 THEN 0 ELSE HeldBy(k) + HeldUpTo(k - 1)

\* C33: no post of another user is left with a reader whose channel the
\* forwarding task does not read: whatever a reader has taken from the
\* event source is on the channel the forwarding task waits on, or has
\* been delivered to the loop.
C33_EveryPostDeliveredOnce ==
    \A r \in DOMAIN mma.readers : r # recvCh => HeldBy(r) = 0

\* what does hold: no post reaches the loop twice, the posts that reach it
\* do so in the order they were read, and every post read is either with
\* the loop or with one reader
DeliveredAtMostOnce ==
    /\ \A i, j \in DOMAIN heap :
          i < j => Len(heap[i].Text) < Len(heap[j].Text)
    /\ \A i \in DOMAIN heap :
          /\ heap[i].Text = PostText(Len(heap[i].Text))
          /\ Len(heap[i].Text) \in 1..mma.read
    /\ mma.read = Len(heap) + HeldUpTo(Len(mma.readers))

\* a post is lost for good: the loop runs, the context is not cancelled,
\* every post there will be has been read, and one of them sits on the
\* channel of a reader the forwarding task has left behind
PostLost ==
    /\ ~ctxDone /\ ~crashed
    /\ mma.read = MaxPosts
    /\ \E r \in DOMAIN mma.readers :
          r # recvCh /\ recvCh # 0 /\ mma.readers[r].out # <<>>

====
